---------------------------- MODULE Spec2Model ----------------------------
(***************************************************************************)
(* A model of the webserv HTTP/1.x server: the incremental request parser  *)
(* (HttpRequest), the per-connection request object (Client) and the       *)
(* poll-driven connection handling of Server.                              *)
(*                                                                         *)
(* Byte strings are sequences of one-character strings.  One extra symbol, *)
(* PAD, stands for a run of PadLen bytes 'a' so that the 8192-byte limits  *)
(* of the program keep their value; ByteLen gives the length in bytes of a *)
(* sequence of symbols.  Offsets into a byte string (bytes_parsed) count   *)
(* symbols; sizes that the code compares with a limit are taken in bytes.  *)
(* PAD occurs only inside request lines and header lines of the inputs.    *)
(***************************************************************************)
EXTENDS Integers, Sequences, FiniteSets, TLC

VARIABLES
    \* ---- a single HttpRequest object driven directly (as tests/test_http.cpp does)
    req,            \* the HttpRequest object
    ret,            \* value returned by the last call of parse
    todo,           \* bytes the driver has not passed to parse yet
    fed,            \* bytes passed to parse since the object was last fresh
    edges,          \* state changes <<from, to>> the object made since it was fresh
    op,             \* last operation applied to the object
    \* ---- the server
    poll_fds,       \* Server::_poll_fds
    clients,        \* Server::_clients: fd -> Client
    output_buffers, \* Server::_output_buffers: fd -> bytes not yet sent
    peer,           \* per open client socket: what the peer still has to send
    enqueued,       \* per client fd: the responses passed to _sendToClient so far
    ev,             \* the event handled by the last step of the loop
    sockets,        \* the descriptors of the open client sockets
    written,        \* per client fd: the bytes send has taken so far
    now,            \* what time(NULL) returns, in seconds
    loop,           \* where Server::run is: at poll, or at an entry of _poll_fds
    _config,        \* Server::_config: the configuration of server 0
    cgi,            \* the call of _executeCgi in progress, if there is one
    fs              \* the files and directories the handlers see: path -> kind

vars == <<req, ret, todo, fed, edges, op,
          poll_fds, clients, output_buffers, peer, enqueued, ev,
          sockets, written, now, loop, _config, cgi, fs>>

parserVars == <<req, ret, todo, fed, edges, op>>
serverVars == <<poll_fds, clients, output_buffers, peer, enqueued, ev,
                sockets, written, now, loop, _config, cgi, fs>>

-----------------------------------------------------------------------------
(* Bounds of the model *)

\* bytes one PAD symbol stands for
PadLen == 4096
\* client connections open at the same time, under Spec and under PairSpec
OneClient == 1
MaxClients == 2
\* seconds that pass with nothing ready between two steps of the loop: the
\* longest idle time the sweep lets pass, and the shortest it does not
IdleShort == 60
IdleLong == 61
\* the clock of the model stops here
MaxTime == 61
\* blocks of output a CGI child writes at most
MaxCgiBlocks == 1

Ticks == {0, IdleShort, IdleLong}

(* Constants of the program *)

\* HttpRequest.cpp:138, the limit on buffered request-line/header bytes
HeaderLimit == 8192
\* Server.hpp:15, size of the buffer handed to recv
BUFFER_SIZE == 8192
\* Server.cpp:404, seconds without a read after which a client is removed
timeout == 60
\* Server.cpp:579, seconds select waits for output of the CGI child
tv_sec == 5

-----------------------------------------------------------------------------
(* Byte strings *)

Chars(s) == [i \in 1..Len(s) |-> SubSeq(s, i, i)]

PAD == "a*PadLen"

ByteWidth(c) == IF c = PAD THEN PadLen ELSE 1

RECURSIVE ByteLen(_)
ByteLen(s) == IF s = <<>> THEN 0 ELSE ByteWidth(Head(s)) + ByteLen(Tail(s))

CRLF == <<"\r", "\n">>

MinOf(S) == CHOOSE i \in S : \A j \in S : i <= j
MaxOf(S) == CHOOSE i \in S : \A j \in S : j <= i

\* std::string::find(pat, from - 1), 1-based; 0 stands for npos
Find(s, pat, from) ==
    LET hits == {i \in from..(Len(s) - Len(pat) + 1) :
                    SubSeq(s, i, i + Len(pat) - 1) = pat}
    IN  IF hits = {} THEN 0 ELSE MinOf(hits)

\* characters std::isspace accepts (operator>> on an istream skips them)
IsSpace(c) == c \in {" ", "\t", "\n", "\r", "\f"}

\* the character set of trim(), HttpRequest.cpp:7
TrimSet == {" ", "\t", "\r", "\n"}

trim(str) ==
    LET keep == {i \in 1..Len(str) : str[i] \notin TrimSet}
    IN  IF keep = {} THEN <<>> ELSE SubSeq(str, MinOf(keep), MaxOf(keep))

UpperCase == Chars("ABCDEFGHIJKLMNOPQRSTUVWXYZ")
LowerCase == Chars("abcdefghijklmnopqrstuvwxyz")

tolower(c) ==
    IF \E i \in 1..26 : UpperCase[i] = c
    THEN LowerCase[CHOOSE i \in 1..26 : UpperCase[i] = c]
    ELSE c

toLower(str) == [i \in 1..Len(str) |-> tolower(str[i])]

\* the whitespace-separated words of a line, as successive operator>> reads them
RECURSIVE Words(_)
Words(s) ==
    LET starts == {i \in 1..Len(s) : ~IsSpace(s[i])}
    IN  IF starts = {} THEN <<>>
        ELSE LET b    == MinOf(starts)
                 ends == {i \in b..Len(s) : IsSpace(s[i])}
                 e    == IF ends = {} THEN Len(s) + 1 ELSE MinOf(ends)
             IN  <<SubSeq(s, b, e - 1)>> \o Words(SubSeq(s, e, Len(s)))

Digits == Chars("0123456789")
IsDigit(c) == \E i \in 1..10 : Digits[i] = c
DigitVal(c) == (CHOOSE i \in 1..10 : Digits[i] = c) - 1

RECURSIVE DecimalValue(_)
DecimalValue(ds) ==
    IF ds = <<>> THEN 0
    ELSE DecimalValue(SubSeq(ds, 1, Len(ds) - 1)) * 10 + DigitVal(ds[Len(ds)])

\* std::istringstream >> size_t: skip whitespace, read the leading run of
\* digits; a string with no leading digit gives 0.  (The lengths of the model
\* have at most four digits and no sign, far below SIZE_MAX.)
ExtractSizeT(str) ==
    LET ns   == {i \in 1..Len(str) : ~IsSpace(str[i])}
        b    == IF ns = {} THEN Len(str) + 1 ELSE MinOf(ns)
        stop == {i \in b..Len(str) : ~IsDigit(str[i])}
        e    == IF stop = {} THEN Len(str) + 1 ELSE MinOf(stop)
    IN  DecimalValue(SubSeq(str, b, e - 1))

-----------------------------------------------------------------------------
(* HttpRequest *)

EmptyMap == [k \in {} |-> <<>>]

\* HttpRequest::HttpRequest()
HttpRequest ==
    [method         |-> "UNKNOWN",
     uri            |-> <<>>,
     query_string   |-> <<>>,
     http_version   |-> <<>>,
     headers        |-> EmptyMap,
     body           |-> <<>>,
     state          |-> "REQUEST_LINE",
     raw_data       |-> <<>>,
     bytes_parsed   |-> 0,
     content_length |-> 0,
     boundary       |-> <<>>,
     error_code     |-> 0]

\* HttpRequest::reset()
reset(r) ==
    [r EXCEPT !.method = "UNKNOWN", !.uri = <<>>, !.query_string = <<>>,
              !.http_version = <<>>, !.headers = EmptyMap, !.body = <<>>,
              !.state = "REQUEST_LINE", !.raw_data = <<>>, !.bytes_parsed = 0,
              !.content_length = 0, !.boundary = <<>>, !.error_code = 0]

\* string literals of HttpRequest.cpp
S_GET == Chars("GET")
S_POST == Chars("POST")
S_DELETE == Chars("DELETE")
S_PUT == Chars("PUT")
S_HEAD == Chars("HEAD")
S_HTTP11 == Chars("HTTP/1.1")
S_HTTP10 == Chars("HTTP/1.0")
S_ContentLength == Chars("Content-Length")
S_ContentType == Chars("Content-Type")
S_TransferEncoding == Chars("Transfer-Encoding")
S_chunked == Chars("chunked")
S_multipart == Chars("multipart/form-data")
S_boundary == Chars("boundary=")

stringToMethod(method_str) ==
    IF method_str = S_GET THEN "GET"
    ELSE IF method_str = S_POST THEN "POST"
    ELSE IF method_str = S_DELETE THEN "DELETE"
    ELSE IF method_str = S_PUT THEN "PUT"
    ELSE IF method_str = S_HEAD THEN "HEAD"
    ELSE "UNKNOWN"

parseQueryString(r) ==
    LET pos == Find(r.uri, <<"?">>, 1)
    IN  IF pos # 0
        THEN [r EXCEPT !.query_string = SubSeq(r.uri, pos + 1, Len(r.uri)),
                       !.uri = SubSeq(r.uri, 1, pos - 1)]
        ELSE r

\* parseRequestLine with the URI/version test made before the method test
parseRequestLine_UriFirst(r, line) ==
    LET w          == Words(line)
        method_str == IF Len(w) >= 1 THEN w[1] ELSE <<>>
        r1 == [r EXCEPT !.uri          = IF Len(w) >= 2 THEN w[2] ELSE @,
                        !.http_version = IF Len(w) >= 3 THEN w[3] ELSE @,
                        !.method       = stringToMethod(method_str)]
    IN  IF r1.uri = <<>> \/ r1.http_version = <<>>
        THEN [r1 EXCEPT !.error_code = 400, !.state = "ERROR"]
        ELSE IF r1.method = "UNKNOWN"
        THEN [r1 EXCEPT !.error_code = 405, !.state = "ERROR"]
        ELSE IF r1.http_version # S_HTTP11 /\ r1.http_version # S_HTTP10
        THEN [r1 EXCEPT !.error_code = 505, !.state = "ERROR"]
        ELSE [parseQueryString(r1) EXCEPT !.state = "HEADERS"]

parseRequestLine(r, line) ==
    LET w          == Words(line)
        method_str == IF Len(w) >= 1 THEN w[1] ELSE <<>>
        \* a failed extraction leaves the member as it was
        r1 == [r EXCEPT !.uri          = IF Len(w) >= 2 THEN w[2] ELSE @,
                        !.http_version = IF Len(w) >= 3 THEN w[3] ELSE @,
                        !.method       = stringToMethod(method_str)]
    IN  IF r1.method = "UNKNOWN"
        THEN [r1 EXCEPT !.error_code = 405, !.state = "ERROR"]
        ELSE IF r1.uri = <<>> \/ r1.http_version = <<>>
        THEN [r1 EXCEPT !.error_code = 400, !.state = "ERROR"]
        ELSE IF r1.http_version # S_HTTP11 /\ r1.http_version # S_HTTP10
        THEN [r1 EXCEPT !.error_code = 505, !.state = "ERROR"]
        ELSE [parseQueryString(r1) EXCEPT !.state = "HEADERS"]

MapPut(m, k, v) == [x \in (DOMAIN m) \cup {k} |-> IF x = k THEN v ELSE m[x]]

\* parseHeader that, on a line without a colon, sets the wrong state
parseHeader_WrongState(r, line) ==
    LET pos == Find(line, <<":">>, 1)
    IN  IF pos = 0
        THEN [r EXCEPT !.error_code = 400, !.state = "REQUEST_LINE"]
        ELSE LET key   == trim(SubSeq(line, 1, pos - 1))
                 value == trim(SubSeq(line, pos + 1, Len(line)))
             IN  [r EXCEPT !.headers = MapPut(@, toLower(key), value)]

parseHeader(r, line) ==
    LET pos == Find(line, <<":">>, 1)
    IN  IF pos = 0
        THEN [r EXCEPT !.error_code = 400, !.state = "ERROR"]
        ELSE LET key   == trim(SubSeq(line, 1, pos - 1))
                 value == trim(SubSeq(line, pos + 1, Len(line)))
             IN  [r EXCEPT !.headers = MapPut(@, toLower(key), value)]

getHeader(r, key) ==
    LET lower_key == toLower(key)
    IN  IF lower_key \in DOMAIN r.headers THEN r.headers[lower_key] ELSE <<>>

\* isChunked that compares the header value as it was sent
isChunked_CaseSensitive(r) ==
    Find(getHeader(r, S_TransferEncoding), S_chunked, 1) # 0

isChunked(r) ==
    Find(toLower(getHeader(r, S_TransferEncoding)), S_chunked, 1) # 0

\* the branch of parse that handles the empty line ending the headers
EndOfHeaders(r) ==
    LET content_len_str == getHeader(r, S_ContentLength)
        r1 == IF content_len_str # <<>>
              THEN [r EXCEPT !.content_length = ExtractSizeT(content_len_str)]
              ELSE r
        content_type == getHeader(r, S_ContentType)
        boundary_pos == Find(content_type, S_boundary, 1)
        b  == SubSeq(content_type, boundary_pos + Len(S_boundary), Len(content_type))
        r2 == IF Find(content_type, S_multipart, 1) # 0
                 /\ boundary_pos # 0
              THEN [r1 EXCEPT !.boundary =
                       IF b # <<>> /\ b[1] = "\"" /\ b[Len(b)] = "\""
                       THEN SubSeq(b, 2, Len(b) - 1)
                       ELSE b]
              ELSE r1
    IN  IF r2.content_length > 0 \/ isChunked(r2)
        THEN [r2 EXCEPT !.state = "BODY"]
        ELSE [r2 EXCEPT !.state = "COMPLETE"]

\* the first k symbols of s, k least with at least n bytes in them
TakeBytes(s, n) ==
    SubSeq(s, 1, MinOf({k \in 0..Len(s) : ByteLen(SubSeq(s, 1, k)) >= n}))

\* the size test of parse made when no line end is buffered
\* (raw_data.size() > 8192), applied to request lines only in HEADERS
HeaderTooLarge_HeadersOnly(r) ==
    r.state = "HEADERS" /\ ByteLen(r.raw_data) > HeaderLimit

\* the size test of parse made when no line end is buffered
HeaderTooLarge(r) == ByteLen(r.raw_data) > HeaderLimit

\* the body test of parse with > for >=
BodyAvailable_OffByOne(r) ==
    ByteLen(SubSeq(r.raw_data, r.bytes_parsed + 1, Len(r.raw_data))) > r.content_length

\* available >= content_length
BodyAvailable(r) ==
    ByteLen(SubSeq(r.raw_data, r.bytes_parsed + 1, Len(r.raw_data))) >= r.content_length

\* one pass through the body of the while loop of parse;
\* returned: the pass ended in a return statement
ParseIter(r) ==
    IF r.state \in {"REQUEST_LINE", "HEADERS"}
    THEN LET line_end == Find(r.raw_data, CRLF, r.bytes_parsed + 1)
         IN  IF line_end = 0
             THEN [req |-> IF HeaderTooLarge(r)
                           THEN [r EXCEPT !.error_code = 431, !.state = "ERROR"]
                           ELSE r,
                   returned |-> TRUE]
             ELSE LET line == SubSeq(r.raw_data, r.bytes_parsed + 1, line_end - 1)
                      r1   == [r EXCEPT !.bytes_parsed = line_end + 1]
                  IN  [req |-> IF r.state = "REQUEST_LINE"
                               THEN parseRequestLine(r1, line)
                               ELSE IF line = <<>>
                               THEN EndOfHeaders(r1)
                               ELSE parseHeader(r1, line),
                       returned |-> FALSE]
    ELSE \* BODY
         IF isChunked(r)
         THEN [req |-> [r EXCEPT !.error_code = 501, !.state = "ERROR"],
               returned |-> TRUE]
         ELSE LET rest == SubSeq(r.raw_data, r.bytes_parsed + 1, Len(r.raw_data))
              IN  IF BodyAvailable(r)
                  THEN LET b == TakeBytes(rest, r.content_length)
                       IN  [req |-> [r EXCEPT !.body = b,
                                              !.bytes_parsed = @ + Len(b),
                                              !.state = "COMPLETE"],
                            returned |-> FALSE]
                  ELSE [req |-> r, returned |-> TRUE]

Step(a, b) == IF a = b THEN {} ELSE {<<a, b>>}

\* the while loop of parse; E collects the state changes made on the way
RECURSIVE ParseLoop(_, _)
ParseLoop(r, E) ==
    IF r.state \in {"COMPLETE", "ERROR"}
    THEN [req |-> r, ret |-> r.state = "COMPLETE", edges |-> E]
    ELSE LET s  == ParseIter(r)
             E1 == E \cup Step(r.state, s.req.state)
         IN  IF s.returned
             THEN [req |-> s.req, ret |-> FALSE, edges |-> E1]
             ELSE ParseLoop(s.req, E1)

\* parse without the test for a finished request at its start
parse_NoTerminalTest(r, data) ==
    ParseLoop([r EXCEPT !.raw_data = @ \o data], {})

\* HttpRequest::parse(data, len)
parse(r, data) ==
    IF r.state = "COMPLETE" \/ r.state = "ERROR"
    THEN [req |-> r, ret |-> r.state = "COMPLETE", edges |-> {}]
    ELSE ParseLoop([r EXCEPT !.raw_data = @ \o data], {})

-----------------------------------------------------------------------------
(* Request byte strings used as inputs *)

Line(s) == Chars(s) \o CRLF

\* GET with a query string and one header
In_GetQuery == Line("GET /i?x=1 HTTP/1.1") \o Line("Host: h") \o CRLF
\* POST with a 3-byte body, followed by bytes that belong to no request
In_PostBody == Line("POST /u HTTP/1.1") \o Line("Content-Length: 3") \o CRLF
               \o Chars("abcde")
In_BadMethod == Line("BREW / HTTP/1.1") \o CRLF
In_EmptyLine == CRLF \o Line("GET / HTTP/1.1") \o CRLF
In_NoVersion == Line("GET /") \o CRLF
In_NoUri == Line("HEAD") \o CRLF
In_Http2 == Line("PUT /p HTTP/2.0") \o CRLF
In_Chunked == Line("POST /c HTTP/1.1") \o Line("Transfer-Encoding: Chunked")
              \o CRLF \o Line("1") \o Line("z")
In_ChunkedLen == Line("POST /c HTTP/1.1") \o Line("Content-Length: 2")
                 \o Line("transfer-encoding: gzip, chunked") \o CRLF \o Chars("zz")
In_NoColon == Line("GET / HTTP/1.0") \o Line("bad") \o CRLF
In_Multipart == Line("POST /u HTTP/1.0")
                \o Line("Content-Type: multipart/form-data; boundary=\"B\"")
                \o Line("CONTENT-LENGTH: 1") \o CRLF \o Chars("x")
\* a request line of more than 8192 bytes that is never terminated
In_LongLine == Chars("GET /") \o <<PAD, PAD>> \o Chars("ab")
\* a header line of more than 8192 bytes that is never terminated
In_LongHeader == Line("GET / HTTP/1.1") \o Chars("x:") \o <<PAD, PAD>> \o Chars("b")
\* a complete request: every line is shorter than 8192 bytes, together they are longer
In_BigHeaders == Line("GET / HTTP/1.1") \o Chars("a:") \o <<PAD>> \o CRLF
                 \o Chars("b:") \o <<PAD>> \o CRLF \o CRLF
In_QueryOnly == Line("DELETE ?x HTTP/1.1") \o CRLF
In_BadLength == Line("GET / HTTP/1.1") \o Line("Content-Length: x")
                \o Line("HOST: a") \o Line("host:  b ") \o CRLF

Inputs ==
    {In_GetQuery, In_PostBody, In_BadMethod, In_EmptyLine, In_NoVersion, In_NoUri,
     In_Http2, In_Chunked, In_ChunkedLen, In_NoColon, In_Multipart, In_LongLine,
     In_LongHeader, In_BigHeaders, In_QueryOnly, In_BadLength}

-----------------------------------------------------------------------------
(* HttpResponse.  A built response is a sequence of strings: the status    *)
(* line, one string per header line, the empty line and the body.          *)

getStatusMessage(code) ==
    CASE code = 200 -> "OK"
      [] code = 201 -> "Created"
      [] code = 204 -> "No Content"
      [] code = 301 -> "Moved Permanently"
      [] code = 302 -> "Found"
      [] code = 304 -> "Not Modified"
      [] code = 400 -> "Bad Request"
      [] code = 403 -> "Forbidden"
      [] code = 404 -> "Not Found"
      [] code = 405 -> "Method Not Allowed"
      [] code = 413 -> "Payload Too Large"
      [] code = 431 -> "Request Header Fields Too Large"
      [] code = 500 -> "Internal Server Error"
      [] code = 501 -> "Not Implemented"
      [] code = 505 -> "HTTP Version Not Supported"
      [] OTHER -> "Unknown"

\* HttpResponse::HttpResponse(int code)
HttpResponse(code) ==
    [status_code    |-> code,
     status_message |-> getStatusMessage(code),
     headers        |-> [k \in {"Server"} |-> "WebServ/1.0"],
     body           |-> ""]

setHeader(resp, key, value) == [resp EXCEPT !.headers = MapPut(@, key, value)]

\* setBody that leaves the Content-Length header alone
setBody_NoLength(resp, content) == [resp EXCEPT !.body = content]

setBody(resp, content) ==
    setHeader([resp EXCEPT !.body = content], "Content-Length", ToString(Len(content)))

setContentType(resp, mime_type) == setHeader(resp, "Content-Type", mime_type)

\* the header names the server uses, in the order std::map iterates over them
HeaderOrder == <<"Content-Length", "Content-Type", "Location", "Server", "X-Tag">>

RECURSIVE HeaderLinesOf(_, _)
HeaderLinesOf(resp, i) ==
    IF i > Len(HeaderOrder) THEN <<>>
    ELSE (IF HeaderOrder[i] \in DOMAIN resp.headers
          THEN <<HeaderOrder[i] \o ": " \o resp.headers[HeaderOrder[i]] \o "\r\n">>
          ELSE <<>>)
         \o HeaderLinesOf(resp, i + 1)

\* HttpResponse::build()
build(resp) ==
    <<"HTTP/1.1 " \o ToString(resp.status_code) \o " " \o resp.status_message \o "\r\n">>
    \o HeaderLinesOf(resp, 1)
    \o <<"\r\n">>
    \o (IF resp.body = "" THEN <<>> ELSE <<resp.body>>)

ok(content, content_type) ==
    setBody(setContentType(HttpResponse(200), content_type), content)

badRequest(message) ==
    setContentType(
        setBody(HttpResponse(400),
                "<html><body><h1>400 Bad Request</h1><p>" \o message \o "</p></body></html>"),
        "text/html")

\* the page loadErrorPage falls back to; www/errors/ holds no page in the model
notFound(message) ==
    setContentType(
        setBody(HttpResponse(404),
                "<html><body><h1>404 Not Found</h1><p>" \o message \o "</p></body></html>"),
        "text/html")

methodNotAllowed(message) ==
    setContentType(
        setBody(HttpResponse(405),
                "<html><body><h1>405 Method Not Allowed</h1><p>" \o message
                    \o "</p></body></html>"),
        "text/html")

internalServerError(message) ==
    setContentType(
        setBody(HttpResponse(500),
                "<html><body><h1>500 Internal Server Error</h1><p>" \o message
                    \o "</p></body></html>"),
        "text/html")

notImplemented(message) ==
    setContentType(
        setBody(HttpResponse(501),
                "<html><body><h1>501 Not Implemented</h1><p>" \o message
                    \o "</p></body></html>"),
        "text/html")

payloadTooLarge(message) ==
    setContentType(
        setBody(HttpResponse(413),
                "<html><body><h1>413 Payload Too Large</h1><p>" \o message
                    \o "</p></body></html>"),
        "text/html")

-----------------------------------------------------------------------------
(* Routing.  Config::parse builds one server with one location.            *)

\* the location table Config::parse sets up
Locations ==
    <<[path |-> Chars("/"), methods |-> {"GET", "POST", "DELETE"},
       cgi_extensions |-> {}]>>

\* Config::getServerConfig(0) after Config::parse
DefaultConfig == [locations |-> Locations]

\* Config::findLocation that returns the first location the URI starts with
findLocation_FirstMatch(uri, server) ==
    LET locs  == server.locations
        match == {i \in DOMAIN locs :
                     /\ Find(uri, locs[i].path, 1) = 1
                     /\ Len(locs[i].path) > 0}
    IN  IF match = {} THEN 0 ELSE MinOf(match)

\* Config::findLocation: index in server.locations of the first location
\* with the longest path the URI starts with, 0 if there is none
findLocation(uri, server) ==
    LET locs  == server.locations
        match == {i \in DOMAIN locs :
                     /\ Find(uri, locs[i].path, 1) = 1
                     /\ Len(locs[i].path) > 0}
    IN  IF match = {} THEN 0
        ELSE CHOOSE i \in match :
                 \A j \in match :
                     \/ Len(locs[j].path) < Len(locs[i].path)
                     \/ (Len(locs[j].path) = Len(locs[i].path) /\ i <= j)

\* what StaticFileHandler::handleRequest returns for a GET, HEAD or DELETE
\* depends on the files under the root; the model lets the file be there and
\* readable, or be missing
StaticFileResponses ==
    {ok("<file>", "text/html"),
     notFound("The requested resource was not found")}

\* what UploadHandler::handleUpload returns for a POST depends on the body and
\* on the upload directory; the model lets the upload succeed, or the
\* boundary be missing
UploadResponses ==
    {ok("<html><body><h1>Upload Successful</h1></body></html>", "text/html"),
     badRequest("Missing boundary in multipart/form-data")}

\* what _executeCgi returns depends on the script, on pipe and fork and on
\* what the interpreter writes: the script is missing; pipe or fork fails;
\* the child writes nothing before the read loop ends; the child's output
\* is turned into a response
CgiFailedEarly ==
    {notFound("CGI script not found"),
     internalServerError("CGI pipe failed"),
     internalServerError("CGI fork failed")}

\* a byte string as the std::string handed to HttpResponse
RECURSIVE Str(_)
Str(cs) == IF cs = <<>> THEN "" ELSE Head(cs) \o Str(Tail(cs))

\* the lines std::getline reads from a string
RECURSIVE GetLines(_)
GetLines(str) ==
    IF str = <<>> THEN <<>>
    ELSE LET nl == Find(str, <<"\n">>, 1)
         IN  IF nl = 0 THEN <<str>>
             ELSE <<SubSeq(str, 1, nl - 1)>> \o GetLines(SubSeq(str, nl + 1, Len(str)))

\* lines 620-640 of _executeCgi: the loop over the lines of the CGI header
\* block, for content_type (response_code is set there too and never used)
RECURSIVE CgiContentType(_, _)
CgiContentType(lines, content_type) ==
    IF lines = <<>> THEN content_type
    ELSE LET raw   == Head(lines)
             hline == IF raw # <<>> /\ raw[Len(raw)] = "\r"
                      THEN SubSeq(raw, 1, Len(raw) - 1) ELSE raw
             colon == Find(hline, <<":">>, 1)
             hname == SubSeq(hline, 1, colon - 1)
             rest  == SubSeq(hline, colon + 1, Len(hline))
             vs    == {k \in 1..Len(rest) : rest[k] \notin {" ", "\t"}}
             hval  == IF vs # {} THEN SubSeq(rest, MinOf(vs), Len(rest)) ELSE rest
         IN  IF hline = <<>> \/ colon = 0
             THEN CgiContentType(Tail(lines), content_type)
             ELSE IF toLower(hname) = Chars("content-type")
             THEN CgiContentType(Tail(lines), hval)
             ELSE CgiContentType(Tail(lines), content_type)

\* the output parser with the separators tried in the other order
CgiCompleted_LfFirst(cgi_output) ==
    IF cgi_output = <<>>
    THEN internalServerError("CGI produced no output")
    ELSE LET lf2     == Find(cgi_output, <<"\n", "\n">>, 1)
             sep     == IF lf2 # 0 THEN lf2 ELSE Find(cgi_output, CRLF \o CRLF, 1)
             sep_len == IF lf2 # 0 THEN 2 ELSE 4
         IN  IF sep # 0
             THEN ok(Str(SubSeq(cgi_output, sep + sep_len, Len(cgi_output))),
                     Str(CgiContentType(GetLines(SubSeq(cgi_output, 1, sep - 1)),
                                        Chars("text/html"))))
             ELSE ok(Str(cgi_output), "text/html")

\* lines 596-652 of _executeCgi: the response made of what the child wrote
CgiCompleted(cgi_output) ==
    IF cgi_output = <<>>
    THEN internalServerError("CGI produced no output")
    ELSE LET crlf2   == Find(cgi_output, CRLF \o CRLF, 1)
             sep     == IF crlf2 # 0 THEN crlf2 ELSE Find(cgi_output, <<"\n", "\n">>, 1)
             sep_len == IF crlf2 # 0 THEN 4 ELSE 2
         IN  IF sep # 0
             THEN ok(Str(SubSeq(cgi_output, sep + sep_len, Len(cgi_output))),
                     Str(CgiContentType(GetLines(SubSeq(cgi_output, 1, sep - 1)),
                                        Chars("text/html"))))
             ELSE ok(Str(cgi_output), "text/html")

CgiResponses == CgiFailedEarly \cup {CgiCompleted(<<>>), CgiCompleted(<<"o">>)}

\* std::string::find_last_of(c), 1-based; 0 stands for npos
FindLastOf(s, c) ==
    LET hits == {i \in 1..Len(s) : s[i] = c}
    IN  IF hits = {} THEN 0 ELSE MaxOf(hits)

\* lines 285-291 of _buildResponse: the part of the URI from the last '.' of
\* its path part on, <<>> if the path part has no '.'
CgiExt(uri) ==
    LET qpos      == Find(uri, <<"?">>, 1)
        path_part == IF qpos # 0 THEN SubSeq(uri, 1, qpos - 1) ELSE uri
        dot_pos   == FindLastOf(path_part, ".")
    IN  IF dot_pos # 0 THEN SubSeq(path_part, dot_pos, Len(path_part)) ELSE <<>>

\* Server::_buildResponse: the handler it calls for a request ("none" if it
\* answers by itself) and the responses it can return
Route(request) ==
    LET location == findLocation(request.uri, _config)
        loc      == _config.locations[location]
    IN  IF location = 0
        THEN [handler |-> "none", responses |-> {notFound("Location not configured")}]
        ELSE IF request.method \notin loc.methods
        THEN [handler |-> "none",
              responses |-> {methodNotAllowed("Method not allowed for this location")}]
        ELSE IF loc.cgi_extensions # {} /\ CgiExt(request.uri) \in loc.cgi_extensions
        THEN [handler |-> "_executeCgi", responses |-> CgiResponses]
        ELSE IF request.method \in {"GET", "DELETE"}
        THEN [handler |-> "StaticFileHandler", responses |-> StaticFileResponses]
        ELSE IF request.method = "HEAD"
        THEN [handler |-> "StaticFileHandler", responses |-> StaticFileResponses]
        ELSE IF request.method = "POST"
        THEN [handler |-> "UploadHandler", responses |-> UploadResponses]
        ELSE IF request.method = "PUT"
        THEN [handler |-> "none",
              responses |-> {ok("<html><body><h1>201 Created</h1><p>Resource created/updated via PUT</p></body></html>",
                                "text/html")}]
        ELSE [handler |-> "none", responses |-> {badRequest("Method not implemented")}]

_buildResponse(request) == Route(request).responses

-----------------------------------------------------------------------------
(* Server *)

\* the descriptor socket() returns for the listening socket
_server_fd == 3

ClientFds == (_server_fd + 1)..(_server_fd + MaxClients)

\* Client::Client(int fd)
Client(fd) == [fd |-> fd, request |-> HttpRequest, last_activity |-> now]

\* Client::updateActivity()
updateActivity(c) == [c EXCEPT !.last_activity = now]

\* Client::resetRequest() that only rewinds the parser state
resetRequest_StateOnly(c) == [c EXCEPT !.request.state = "REQUEST_LINE"]

\* Client::resetRequest()
resetRequest(c) == [c EXCEPT !.request = HttpRequest]

MapRemove(m, k) == [x \in (DOMAIN m) \ {k} |-> m[x]]

Buffered(bufs, fd) == IF fd \in DOMAIN bufs THEN bufs[fd] ELSE <<>>

\* the events registered for fd in the poll set ({} if fd is not in it)
Events(pfds, fd) ==
    IF \E i \in DOMAIN pfds : pfds[i].fd = fd
    THEN pfds[MinOf({i \in DOMAIN pfds : pfds[i].fd = fd})].events
    ELSE {}

\* the loop of _sendToClient setting POLLOUT on every entry it walks over
AddPollout_All(pfds, fd) ==
    [i \in DOMAIN pfds |->
        IF pfds[i].fd = _server_fd THEN pfds[i]
        ELSE [pfds[i] EXCEPT !.events = @ \cup {"POLLOUT"}]]

\* the loop of _sendToClient: events |= POLLOUT on the first entry for fd
AddPollout(pfds, fd) ==
    LET hit == {i \in DOMAIN pfds : pfds[i].fd = fd}
    IN  IF hit = {} THEN pfds
        ELSE [pfds EXCEPT ![MinOf(hit)].events = @ \cup {"POLLOUT"}]

\* a flush that leaves the events as they are when the buffer is empty
OnlyPollin_Keeps(pfds, fd) == pfds

\* the loop of _flushClientBuffer: events = POLLIN on the first entry for fd
OnlyPollin(pfds, fd) ==
    LET hit == {i \in DOMAIN pfds : pfds[i].fd = fd}
    IN  IF hit = {} THEN pfds
        ELSE [pfds EXCEPT ![MinOf(hit)].events = {"POLLIN"}]

\* the first entry for fd erased from _poll_fds
ErasePollFd(pfds, fd) ==
    LET hit == {i \in DOMAIN pfds : pfds[i].fd = fd}
    IN  IF hit = {} THEN pfds
        ELSE LET i == MinOf(hit)
             IN  SubSeq(pfds, 1, i - 1) \o SubSeq(pfds, i + 1, Len(pfds))

RECURSIVE Concat(_)
Concat(ss) == IF ss = <<>> THEN <<>> ELSE Head(ss) \o Concat(Tail(ss))

\* the tables of the server, the open sockets and what is recorded per socket
Tables ==
    [poll_fds |-> poll_fds, clients |-> clients, output_buffers |-> output_buffers,
     sockets |-> sockets, peer |-> peer, enqueued |-> enqueued, written |-> written]

SetTables(T) ==
    /\ poll_fds' = T.poll_fds
    /\ clients' = T.clients
    /\ output_buffers' = T.output_buffers
    /\ sockets' = T.sockets
    /\ peer' = T.peer
    /\ enqueued' = T.enqueued
    /\ written' = T.written

\* _removeClient without the erase of the output buffer
removeClient_KeepsBuffer(T, client_fd) ==
    [T EXCEPT !.poll_fds = ErasePollFd(T.poll_fds, client_fd),
              !.clients  = MapRemove(T.clients, client_fd),
              !.sockets  = T.sockets \ {client_fd},
              !.peer     = MapRemove(T.peer, client_fd),
              !.enqueued = MapRemove(T.enqueued, client_fd),
              !.written  = MapRemove(T.written, client_fd)]

\* _removeClient without the close of the descriptor
removeClient_NoClose(T, client_fd) ==
    [T EXCEPT !.poll_fds       = ErasePollFd(T.poll_fds, client_fd),
              !.clients        = MapRemove(T.clients, client_fd),
              !.output_buffers = MapRemove(T.output_buffers, client_fd),
              !.peer           = MapRemove(T.peer, client_fd),
              !.enqueued       = MapRemove(T.enqueued, client_fd),
              !.written        = MapRemove(T.written, client_fd)]

\* Server::_removeClient applied to the tables T; close(client_fd) closes
\* whatever socket has that number
removeClient(T, client_fd) ==
    [poll_fds       |-> ErasePollFd(T.poll_fds, client_fd),
     clients        |-> MapRemove(T.clients, client_fd),
     output_buffers |-> MapRemove(T.output_buffers, client_fd),
     sockets        |-> T.sockets \ {client_fd},
     peer           |-> MapRemove(T.peer, client_fd),
     enqueued       |-> MapRemove(T.enqueued, client_fd),
     written        |-> MapRemove(T.written, client_fd)]

\* Server::_removeClient
_removeClient(client_fd) == SetTables(removeClient(Tables, client_fd))

\* _sendToClient with = in place of += on the output buffer
_sendToClient_Overwrites(client_fd, resp, request) ==
    /\ output_buffers' = MapPut(output_buffers, client_fd, build(resp))
    /\ poll_fds' = AddPollout(poll_fds, client_fd)
    /\ enqueued' = [enqueued EXCEPT ![client_fd] =
                       Append(@, [status |-> resp.status_code, uri |-> request.uri,
                                  out |-> build(resp)])]

\* Server::_sendToClient, with the record of what was enqueued
_sendToClient(client_fd, resp, request) ==
    /\ output_buffers' = MapPut(output_buffers, client_fd,
                                Buffered(output_buffers, client_fd) \o build(resp))
    /\ poll_fds' = AddPollout(poll_fds, client_fd)
    /\ enqueued' = [enqueued EXCEPT ![client_fd] =
                       Append(@, [status |-> resp.status_code, uri |-> request.uri,
                                  out |-> build(resp)])]

\* the test of the sweep with >= in place of >
TimedOut_AtLeast(T, t) == {fd \in DOMAIN T.clients : t - T.clients[fd].last_activity >= timeout}

\* the clients _cleanupTimedOutClients collects when time(NULL) returns t
TimedOut(T, t) == {fd \in DOMAIN T.clients : t - T.clients[fd].last_activity > timeout}

\* the second loop of _cleanupTimedOutClients, over the descriptors F in the
\* order of the client map
RECURSIVE removeAll(_, _)
removeAll(T, F) ==
    IF F = {} THEN T
    ELSE removeAll(removeClient(T, MinOf(F)), F \ {MinOf(F)})

\* Server::_cleanupTimedOutClients applied to the tables T at time t
_cleanupTimedOutClients(T, t) == removeAll(T, TimedOut(T, t))

\* the response _handleClientData builds for a parser error
ErrorResponse(err) ==
    IF err = 405 THEN methodNotAllowed("Method not allowed")
    ELSE IF err = 505 THEN notImplemented("HTTP Version Not Supported")
    ELSE badRequest("Bad Request")

\* the part of _handleClientData after a recv that returned the bytes data
OnData(client_fd, data) ==
    \E client \in {updateActivity(clients[client_fd])} :
    \E res \in {parse(client.request, data)} :
        /\ ev' = [kind |-> "read", fd |-> client_fd, state |-> res.req.state,
                  error_code |-> res.req.error_code]
        /\ IF res.ret
           THEN \* _processClientRequest: _buildResponse returns at once, or
                \* _executeCgi has forked and the call goes on
                \/ /\ \E resp \in (IF Route(res.req).handler = "_executeCgi"
                                   THEN CgiFailedEarly
                                   ELSE _buildResponse(res.req)) :
                          _sendToClient(client_fd, resp, res.req)
                   /\ clients' = [clients EXCEPT ![client_fd] = resetRequest(client)]
                \/ /\ Route(res.req).handler = "_executeCgi"
                   /\ clients' = [clients EXCEPT ![client_fd] =
                                      [client EXCEPT !.request = res.req]]
                   /\ UNCHANGED <<output_buffers, poll_fds, enqueued>>
           ELSE IF res.req.state = "ERROR"
           THEN /\ _sendToClient(client_fd, ErrorResponse(res.req.error_code), res.req)
                /\ clients' = [clients EXCEPT ![client_fd] = resetRequest(client)]
           ELSE /\ clients' = [clients EXCEPT ![client_fd] =
                                  [client EXCEPT !.request = res.req]]
                /\ UNCHANGED <<output_buffers, poll_fds, enqueued>>

\* Server::_acceptNewClient: accept returns the lowest free descriptor for a
\* peer that will send stream, or it fails
_acceptNewClient(stream) ==
    \/ /\ LET client_fd == MinOf(ClientFds \ sockets)
          IN  /\ sockets' = sockets \cup {client_fd}
              /\ poll_fds' = Append(poll_fds, [fd |-> client_fd, events |-> {"POLLIN"},
                                               requested |-> {}])
              /\ clients' = MapPut(clients, client_fd, Client(client_fd))
              /\ peer' = MapPut(peer, client_fd, stream)
              /\ enqueued' = MapPut(enqueued, client_fd, <<>>)
              /\ written' = MapPut(written, client_fd, <<>>)
              /\ ev' = [kind |-> "accept", fd |-> client_fd]
       /\ UNCHANGED output_buffers
    \/ /\ ev' = [kind |-> "accept_failed", fd |-> _server_fd]
       /\ UNCHANGED <<poll_fds, clients, output_buffers, sockets, peer, enqueued, written>>

\* Server::_handleClientData of the copy under src/webserver: it has no branch
\* for a request in ERROR
_handleClientData_webserver(client_fd) ==
    \/ \E k \in 1..Len(peer[client_fd].segs) :
         \E data \in {Concat(SubSeq(peer[client_fd].segs, 1, k))} :
         \E client \in {updateActivity(clients[client_fd])} :
         \E res \in {parse(client.request, data)} :
             /\ ByteLen(data) <= BUFFER_SIZE
             /\ ev' = [kind |-> "read", fd |-> client_fd, state |-> res.req.state,
                       error_code |-> res.req.error_code]
             /\ IF res.ret
                THEN /\ \E resp \in _buildResponse(res.req) :
                            _sendToClient(client_fd, resp, res.req)
                     /\ clients' = [clients EXCEPT ![client_fd] = resetRequest(client)]
                ELSE /\ clients' = [clients EXCEPT ![client_fd] =
                                       [client EXCEPT !.request = res.req]]
                     /\ UNCHANGED <<output_buffers, poll_fds, enqueued>>
             /\ peer' = [peer EXCEPT ![client_fd].segs = SubSeq(@, k + 1, Len(@))]
             /\ UNCHANGED <<sockets, written>>
    \/ /\ _removeClient(client_fd)
       /\ ev' = [kind |-> "read_failed", fd |-> client_fd]

\* _handleClientData that returns on a failed recv without _removeClient
_handleClientData_NoEvict(client_fd) ==
    \/ \E k \in 1..Len(peer[client_fd].segs) :
         \E data \in {Concat(SubSeq(peer[client_fd].segs, 1, k))} :
             /\ ByteLen(data) <= BUFFER_SIZE
             /\ OnData(client_fd, data)
             /\ peer' = [peer EXCEPT ![client_fd].segs = SubSeq(@, k + 1, Len(@))]
             /\ UNCHANGED <<sockets, written>>
    \/ /\ ev' = [kind |-> "read_failed", fd |-> client_fd]
       /\ UNCHANGED <<poll_fds, clients, output_buffers, sockets, peer, enqueued, written>>

\* Server::_handleClientData: recv returns the next bytes of the peer (at most
\* BUFFER_SIZE), or it returns 0 or -1
_handleClientData(client_fd) ==
    \/ \E k \in 1..Len(peer[client_fd].segs) :
         \E data \in {Concat(SubSeq(peer[client_fd].segs, 1, k))} :
             /\ ByteLen(data) <= BUFFER_SIZE
             /\ OnData(client_fd, data)
             /\ peer' = [peer EXCEPT ![client_fd].segs = SubSeq(@, k + 1, Len(@))]
             /\ UNCHANGED <<sockets, written>>
    \/ /\ _removeClient(client_fd)
       /\ ev' = [kind |-> "read_failed", fd |-> client_fd]

\* _flushClientBuffer that counts a write as activity of the connection
_flushClientBuffer_Refreshes(client_fd) ==
    \/ /\ Buffered(output_buffers, client_fd) # <<>>
       /\ \E sent \in 1..Len(output_buffers[client_fd]) :
            LET buffer == SubSeq(output_buffers[client_fd], sent + 1,
                                 Len(output_buffers[client_fd]))
            IN  /\ output_buffers' = [output_buffers EXCEPT ![client_fd] = buffer]
                /\ written' = [written EXCEPT ![client_fd] =
                                  @ \o SubSeq(output_buffers[client_fd], 1, sent)]
                /\ poll_fds' = IF buffer = <<>> THEN OnlyPollin(poll_fds, client_fd)
                               ELSE poll_fds
                /\ clients' = [clients EXCEPT ![client_fd] = updateActivity(@)]
                /\ ev' = [kind |-> "write", fd |-> client_fd, sent |-> sent]
                /\ UNCHANGED <<sockets, peer, enqueued>>
    \/ /\ Buffered(output_buffers, client_fd) # <<>>
       /\ _removeClient(client_fd)
       /\ ev' = [kind |-> "write_failed", fd |-> client_fd]

\* Server::_flushClientBuffer on a buffer that is not empty (run calls it for
\* no other): one send, which takes a prefix of the buffer or fails
_flushClientBuffer(client_fd) ==
    \/ /\ Buffered(output_buffers, client_fd) # <<>>
       /\ \E sent \in 1..Len(output_buffers[client_fd]) :
            LET buffer == SubSeq(output_buffers[client_fd], sent + 1,
                                 Len(output_buffers[client_fd]))
            IN  /\ output_buffers' = [output_buffers EXCEPT ![client_fd] = buffer]
                /\ written' = [written EXCEPT ![client_fd] =
                                  @ \o SubSeq(output_buffers[client_fd], 1, sent)]
                /\ poll_fds' = IF buffer = <<>> THEN OnlyPollin(poll_fds, client_fd)
                               ELSE poll_fds
                /\ ev' = [kind |-> "write", fd |-> client_fd, sent |-> sent]
                /\ UNCHANGED <<clients, sockets, peer, enqueued>>
    \/ /\ Buffered(output_buffers, client_fd) # <<>>
       /\ _removeClient(client_fd)
       /\ ev' = [kind |-> "write_failed", fd |-> client_fd]

-----------------------------------------------------------------------------
(* What the peers of the server send.  A stream is cut into segments; one  *)
(* recv returns one or more consecutive segments.  requests lists the URIs *)
(* of the requests when the stream is a run of complete requests.          *)

St_Pipelined ==
    [segs |-> <<Chars("GET /a HTTP/1.1\r"), Chars("\n\r\n"),
                Chars("GET /b HTTP/1.1\r\n"), CRLF>>,
     requests |-> <<Chars("/a"), Chars("/b")>>]
St_PostThenGet ==
    [segs |-> <<Line("POST /u HTTP/1.1") \o Line("Content-Length: 3") \o CRLF \o Chars("ab"),
                Chars("c") \o Line("HEAD /h HTTP/1.0") \o CRLF>>,
     requests |-> <<Chars("/u"), Chars("/h")>>]
St_BadMethod == [segs |-> <<Line("BREW / HTTP/1.1"), CRLF>>, requests |-> <<>>]
St_Http2 == [segs |-> <<Line("GET / HTTP/2.0") \o CRLF>>, requests |-> <<>>]
St_Chunked ==
    [segs |-> <<Line("POST /c HTTP/1.1") \o Line("Transfer-Encoding: chunked"),
                CRLF \o Line("0") \o CRLF>>,
     requests |-> <<>>]
St_NoColon == [segs |-> <<Line("GET / HTTP/1.1") \o Line("bad"), CRLF>>, requests |-> <<>>]
St_LongLine ==
    [segs |-> <<Chars("GET /") \o <<PAD>>, <<PAD>> \o Chars("ab")>>, requests |-> <<>>]
St_Short ==
    [segs |-> <<Chars("GET /a HTTP/1.1\r\n\r"), Chars("\n")>>, requests |-> <<Chars("/a")>>]
St_NoSlash == [segs |-> <<Line("PUT x HTTP/1.1") \o CRLF>>, requests |-> <<Chars("x")>>]

\* the streams of the peers when several connections are open at a time
FewStreams == {St_Http2, St_NoSlash, St_Short}

Streams ==
    {St_Pipelined, St_PostThenGet, St_BadMethod, St_Http2, St_Chunked, St_NoColon,
     St_LongLine, St_NoSlash}

-----------------------------------------------------------------------------
(* A driver of one HttpRequest object: it passes the input to parse in      *)
(* chunks of any size; after reset() it starts on another input.           *)

\* the server after Server::Server: only the listening socket is polled
\* no call of _executeCgi is in progress
NoCgi == [pc |-> "none"]

\* the server right after Server::Server(config) and _setupSocket
ServerWith(config, files) ==
    /\ _config = config
    /\ fs = files
    /\ cgi = NoCgi
    /\ poll_fds = <<[fd |-> _server_fd, events |-> {"POLLIN"}, requested |-> {}]>>
    /\ clients = EmptyMap
    /\ output_buffers = EmptyMap
    /\ peer = EmptyMap
    /\ enqueued = EmptyMap
    /\ ev = [kind |-> "none", fd |-> 0]
    /\ sockets = {}
    /\ written = EmptyMap
    /\ now = 0
    /\ loop = [pc |-> "poll", i |-> 0, fd |-> 0, evicted |-> {}]

\* the handlers of the server are not called, no file matters
ServerStart(config) == ServerWith(config, EmptyMap)

\* the server started with the configuration Config::parse builds
ServerInit == ServerStart(DefaultConfig)

\* the request object of the driver, not in use
DriverIdle ==
    /\ req = HttpRequest
    /\ ret = FALSE
    /\ todo = <<>>
    /\ fed = <<>>
    /\ edges = {}
    /\ op = "new"

ParserInit ==
    /\ req = HttpRequest
    /\ ret = FALSE
    /\ todo \in Inputs
    /\ fed = <<>>
    /\ edges = {}
    /\ op = "new"
    /\ ServerInit

\* req.parse(data, n) with the next n symbols of the input
CallParse(n) ==
    LET data == SubSeq(todo, 1, n)
        res  == parse(req, data)
    IN  /\ req' = res.req
        /\ ret' = res.ret
        /\ todo' = SubSeq(todo, n + 1, Len(todo))
        /\ fed' = fed \o data
        /\ edges' = edges \cup res.edges
        /\ op' = "parse"
        /\ UNCHANGED serverVars

\* req.reset(); the driver then turns to another input
CallReset ==
    /\ op = "parse"
    /\ req' = reset(req)
    /\ todo' \in Inputs
    /\ fed' = <<>>
    /\ edges' = {}
    /\ op' = "reset"
    /\ UNCHANGED <<ret, serverVars>>

ParserNext ==
    \/ \E n \in 1..Len(todo) : CallParse(n)
    \/ CallReset

ParserSpec == ParserInit /\ [][ParserNext]_vars

-----------------------------------------------------------------------------
(* Server::run.  A step is the call of poll with the sweep that follows    *)
(* it, or the body of the for loop for one entry of _poll_fds.  An entry   *)
(* carries in requested the events it had when poll was called; its        *)
(* revents are chosen when the loop reaches it.                            *)

Init == DriverIdle /\ ServerInit

Entry == poll_fds[loop.i]

\* the loop goes on with entry k of pfds, or leaves the for loop; evicted
\* collects the descriptors the for loop has removed since poll returned
Goto(k, pfds, gone) ==
    IF k > Len(pfds)
    THEN [pc |-> "poll", i |-> 0, fd |-> 0, evicted |-> {}]
    ELSE [pc |-> "in", i |-> k, fd |-> 0, evicted |-> loop.evicted \cup gone]

\* lines 55-63: poll returns after d seconds, then the sweep
Poll(d) ==
    /\ loop.pc = "poll"
    /\ now + d <= MaxTime
    /\ now' = now + d
    /\ LET T == _cleanupTimedOutClients(Tables, now + d)
       IN  SetTables([T EXCEPT !.poll_fds =
                         [i \in DOMAIN T.poll_fds |->
                             [T.poll_fds[i] EXCEPT !.requested = T.poll_fds[i].events]]])
    /\ loop' = [pc |-> "in", i |-> 1, fd |-> 0, evicted |-> {}]
    /\ ev' = [kind |-> "poll", fd |-> 0, evicted |-> TimedOut(Tables, now + d),
              sent |-> [fd \in TimedOut(Tables, now + d) |-> written[fd]],
              dropped |-> [fd \in TimedOut(Tables, now + d) |->
                              Buffered(output_buffers, fd)]]
    /\ UNCHANGED <<parserVars, _config, fs, cgi>>

\* lines 66-69: revents == 0
SkipEntry ==
    /\ loop.pc = "in"
    /\ loop' = Goto(loop.i + 1, poll_fds, {})
    /\ ev' = [kind |-> "idle", fd |-> Entry.fd]
    /\ UNCHANGED <<poll_fds, clients, output_buffers, sockets, peer, enqueued, written,
                   now, parserVars, _config, fs, cgi>>

\* lines 74-79: POLLERR, POLLHUP or POLLNVAL on the listening socket
ServerError ==
    /\ loop.pc = "in"
    /\ Entry.fd = _server_fd
    /\ Entry.requested # {}
    /\ loop' = Goto(loop.i + 1, poll_fds, {})
    /\ ev' = [kind |-> "server_error", fd |-> Entry.fd]
    /\ UNCHANGED <<poll_fds, clients, output_buffers, sockets, peer, enqueued, written,
                   now, parserVars, _config, fs, cgi>>

\* lines 74-82: POLLERR, POLLHUP or POLLNVAL on a client socket
PollError ==
    /\ loop.pc = "in"
    /\ Entry.fd # _server_fd
    /\ Entry.requested # {}
    /\ _removeClient(Entry.fd)
    /\ loop' = Goto(loop.i, poll_fds', {Entry.fd})
    /\ ev' = [kind |-> "hangup", fd |-> Entry.fd]
    /\ UNCHANGED <<now, parserVars, _config, fs, cgi>>

\* lines 85-87 and 96-109: POLLIN on the listening socket; the peers keep at
\* most cap connections open
AcceptEvent(stream, cap) ==
    /\ loop.pc = "in"
    /\ Entry.fd = _server_fd
    /\ "POLLIN" \in Entry.requested
    /\ Cardinality(sockets) < cap
    /\ _acceptNewClient(stream)
    /\ loop' = Goto(loop.i + 1, poll_fds', {})
    /\ UNCHANGED <<now, parserVars, _config, fs, cgi>>

\* _handleClientData of one of the two copies of Server.cpp
HandleClientData(copy, client_fd) ==
    IF copy = "webserv" THEN _handleClientData(client_fd)
    ELSE _handleClientData_webserver(client_fd)

\* the handler has returned to line 91 of run: where the loop goes next
AfterRead(out) ==
    IF Entry.fd \notin DOMAIN clients'
    THEN Goto(loop.i, poll_fds', {Entry.fd})
    ELSE IF out
    THEN [pc |-> "out", i |-> loop.i, fd |-> Entry.fd, evicted |-> loop.evicted]
    ELSE Goto(loop.i + 1, poll_fds', {})

\* the handler of fd has not returned: its request is complete and not yet
\* reset, _executeCgi has forked the interpreter
InCgi(cl, fd) == fd \in DOMAIN cl /\ cl[fd].request.state = "COMPLETE"

\* lines 85-99: POLLIN on a client socket; out tells whether revents has
\* POLLOUT as well
ReadEvent(copy, out) ==
    /\ loop.pc = "in"
    /\ Entry.fd # _server_fd
    /\ "POLLIN" \in Entry.requested
    /\ out => "POLLOUT" \in Entry.requested
    /\ HandleClientData(copy, Entry.fd)
    /\ IF InCgi(clients', Entry.fd)
       THEN /\ cgi' = [pc |-> "select", fd |-> Entry.fd, out |-> out,
                       child |-> "running", pipe |-> <<>>, cgi_output |-> <<>>]
            /\ loop' = [loop EXCEPT !.pc = "cgi"]
       ELSE /\ cgi' = cgi
            /\ loop' = AfterRead(out)
    /\ UNCHANGED <<now, parserVars, _config, fs>>

\* lines 96-109: POLLOUT in revents, alone or after the read of the same entry
WriteEvent ==
    /\ \/ loop.pc = "out"
       \/ /\ loop.pc = "in"
          /\ "POLLOUT" \in Entry.requested
    /\ LET current_fd == IF loop.pc = "out" THEN loop.fd ELSE Entry.fd
       IN  IF loop.i > Len(poll_fds) \/ Entry.fd # current_fd
           THEN /\ loop' = Goto(loop.i, poll_fds, {})
                /\ ev' = [kind |-> "moved", fd |-> current_fd]
                /\ UNCHANGED <<poll_fds, clients, output_buffers, sockets, peer,
                               enqueued, written>>
           ELSE IF Buffered(output_buffers, current_fd) = <<>>
           THEN /\ loop' = Goto(loop.i + 1, poll_fds, {})
                /\ ev' = [kind |-> "write_nothing", fd |-> current_fd]
                /\ UNCHANGED <<poll_fds, clients, output_buffers, sockets, peer,
                               enqueued, written>>
           ELSE /\ _flushClientBuffer(current_fd)
                /\ loop' = Goto(loop.i + 1, poll_fds', sockets \ sockets')
    /\ UNCHANGED <<now, parserVars, _config, fs, cgi>>

Next ==
    \/ \E d \in Ticks : Poll(d)
    \/ SkipEntry
    \/ ServerError
    \/ PollError
    \/ \E stream \in Streams : AcceptEvent(stream, OneClient)
    \/ \E out \in BOOLEAN : ReadEvent("webserv", out)
    \/ WriteEvent

Spec == Init /\ [][Next]_vars

-----------------------------------------------------------------------------
(* _executeCgi called from the read handler, lines 554-653: the parent has *)
(* forked the interpreter and written the body; it reads the child's       *)
(* output with select and read, then reaps the child and returns.          *)

Py == Chars(".py")

\* a server whose root location maps .py to an interpreter
CgiConfig ==
    [locations |-> <<[path |-> Chars("/"), methods |-> {"GET", "HEAD"},
                      cgi_extensions |-> {Py}]>>]

St_Cgi == [segs |-> <<Line("GET /a.py HTTP/1.1") \o CRLF>>, requests |-> <<Chars("/a.py")>>]

CgiStreams == {St_Cgi, St_Short}

CgiInit == DriverIdle /\ ServerStart(CgiConfig)

\* the interpreter writes a block of output to its stdout
CgiChildWrites ==
    /\ cgi.pc = "select"
    /\ cgi.child = "running"
    /\ Len(cgi.pipe) < MaxCgiBlocks
    /\ cgi' = [cgi EXCEPT !.pipe = Append(@, "o")]
    /\ UNCHANGED <<parserVars, poll_fds, clients, output_buffers, peer, enqueued, ev,
                   sockets, written, now, loop, _config, fs>>

\* the interpreter exits, which closes its end of the pipe
CgiChildExits ==
    /\ cgi.pc = "select"
    /\ cgi.child = "running"
    /\ cgi' = [cgi EXCEPT !.child = "exited"]
    /\ UNCHANGED <<parserVars, poll_fds, clients, output_buffers, peer, enqueued, ev,
                   sockets, written, now, loop, _config, fs>>

\* lines 581-585: select reports the pipe readable and read returns n > 0
CgiRead ==
    /\ cgi.pc = "select"
    /\ cgi.pipe # <<>>
    /\ cgi' = [cgi EXCEPT !.cgi_output = IF Len(@) >= MaxCgiBlocks THEN @ ELSE @ \o cgi.pipe,
                           !.pipe = <<>>]
    /\ ev' = [kind |-> "cgi_read", fd |-> cgi.fd]
    /\ UNCHANGED <<parserVars, poll_fds, clients, output_buffers, peer, enqueued,
                   sockets, written, now, loop, _config, fs>>

\* lines 587-653 and 255-256, 249: the read loop is over; the child is reaped
\* (killed first if it still runs), the response is built from cgi_output and
\* enqueued, the request is reset and run goes on after line 91
CgiReturn(kind) ==
    /\ _sendToClient(cgi.fd, CgiCompleted(cgi.cgi_output), clients[cgi.fd].request)
    /\ clients' = [clients EXCEPT ![cgi.fd] = resetRequest(@)]
    /\ cgi' = NoCgi
    /\ loop' = AfterRead(cgi.out)
    /\ ev' = [kind |-> kind, fd |-> cgi.fd]
    /\ UNCHANGED <<parserVars, peer, sockets, written, _config, fs>>

\* lines 581-584: the child has closed the pipe, read returns 0
CgiEof ==
    /\ cgi.pc = "select"
    /\ cgi.pipe = <<>>
    /\ cgi.child = "exited"
    /\ now' = now
    /\ CgiReturn("cgi_eof")

\* lines 579-582: nothing to read for tv_sec seconds, select returns 0
CgiTimeout ==
    /\ cgi.pc = "select"
    /\ cgi.pipe = <<>>
    /\ cgi.child = "running"
    /\ now + tv_sec <= MaxTime
    /\ now' = now + tv_sec
    /\ CgiReturn("cgi_timeout")

\* the server loop with the CGI gateway configured
NextCgi ==
    \/ \E d \in Ticks : Poll(d)
    \/ SkipEntry
    \/ ServerError
    \/ PollError
    \/ \E stream \in CgiStreams : AcceptEvent(stream, OneClient)
    \/ \E out \in BOOLEAN : ReadEvent("webserv", out)
    \/ WriteEvent
    \/ CgiChildWrites
    \/ CgiChildExits
    \/ CgiRead
    \/ CgiEof
    \/ CgiTimeout

CgiSpec == CgiInit /\ [][NextCgi]_vars

\* the same, with the steps of the server itself taken whenever they stay
\* possible: select and read return, whatever the child does
CgiFairSpec ==
    /\ CgiInit
    /\ [][NextCgi]_vars
    /\ WF_vars(CgiRead)
    /\ WF_vars(CgiEof)
    /\ WF_vars(CgiTimeout)

-----------------------------------------------------------------------------
(* _executeCgi from fork to the end of the read loop, lines 530-587, with   *)
(* the two pipes and the child.  Sizes are counted in blocks; a pipe holds *)
(* PipeCapacity blocks.  The child runs one of a few scripts.              *)

\* the blocks a pipe holds before a write to it blocks
PipeCapacity == 1
\* the largest request body, in blocks
MaxBodyBlocks == 2
\* the most blocks a script writes to its stdout
MaxOutBlocks == 2

\* what the interpreter does: it reads its stdin to the end and then writes;
\* it writes and then reads its stdin to the end; it writes and exits without
\* reading; it does nothing at all
Scripts == {"reads_first", "writes_first", "ignores_input", "sleeps"}

\* line 555: fork has returned in the parent for a request with a body of
\* body blocks
PipeInit ==
    /\ DriverIdle
    /\ _config = CgiConfig
    /\ fs = EmptyMap
    /\ poll_fds = <<[fd |-> _server_fd, events |-> {"POLLIN"}, requested |-> {}]>>
    /\ clients = EmptyMap
    /\ output_buffers = EmptyMap
    /\ peer = EmptyMap
    /\ enqueued = EmptyMap
    /\ ev = [kind |-> "none", fd |-> 0]
    /\ sockets = {}
    /\ written = EmptyMap
    /\ now = 0
    /\ loop = [pc |-> "cgi", i |-> 0, fd |-> 0, evicted |-> {}]
    /\ \E body \in 0..MaxBodyBlocks, script \in Scripts, out \in 0..MaxOutBlocks :
           cgi = [pc |-> "write", body |-> body, left |-> body, stdin_pipe |-> 0,
                  stdout_pipe |-> 0, cgi_output |-> 0, script |-> script,
                  out_left |-> out, child |-> "running", eof |-> FALSE]

PipeUnchanged ==
    UNCHANGED <<parserVars, poll_fds, clients, output_buffers, peer, enqueued, ev,
                sockets, written, now, loop, _config, fs>>

\* lines 559-561: write(stdin_pipe[1], body) on a blocking pipe takes the
\* next block when the pipe has room for it
CgiWriteBody ==
    /\ cgi.pc = "write"
    /\ cgi.left > 0
    /\ cgi.child = "running"
    /\ cgi.stdin_pipe < PipeCapacity
    /\ cgi' = [cgi EXCEPT !.left = @ - 1, !.stdin_pipe = @ + 1]
    /\ PipeUnchanged

\* lines 559-561: the child has exited, no process has the read end open:
\* write raises SIGPIPE, which main leaves at its default action
CgiWriteSigpipe ==
    /\ cgi.pc = "write"
    /\ cgi.left > 0
    /\ cgi.child = "exited"
    /\ cgi' = [cgi EXCEPT !.pc = "killed"]
    /\ PipeUnchanged

\* line 562: write has returned, or the body is empty; close(stdin_pipe[1])
CgiCloseStdin ==
    /\ cgi.pc = "write"
    /\ cgi.left = 0
    /\ cgi' = [cgi EXCEPT !.pc = "select"]
    /\ PipeUnchanged

\* the script is at a read of its stdin
ChildAtRead ==
    /\ cgi.child = "running"
    /\ ~cgi.eof
    /\ \/ cgi.script = "reads_first"
       \/ cgi.script = "writes_first" /\ cgi.out_left = 0

\* the script is at a write to its stdout
ChildAtWrite ==
    /\ cgi.child = "running"
    /\ cgi.out_left > 0
    /\ \/ cgi.script \in {"writes_first", "ignores_input"}
       \/ cgi.script = "reads_first" /\ cgi.eof

\* the child reads a block from its stdin
ChildReads ==
    /\ ChildAtRead
    /\ cgi.stdin_pipe > 0
    /\ cgi' = [cgi EXCEPT !.stdin_pipe = @ - 1]
    /\ PipeUnchanged

\* the child reads end-of-input: the pipe is empty and the parent has closed it
ChildSeesEof ==
    /\ ChildAtRead
    /\ cgi.stdin_pipe = 0
    /\ cgi.pc # "write"
    /\ cgi' = [cgi EXCEPT !.eof = TRUE]
    /\ PipeUnchanged

\* the child writes a block to its stdout when the pipe has room for it
ChildWrites ==
    /\ ChildAtWrite
    /\ cgi.pc \in {"write", "select"}
    /\ cgi.stdout_pipe < PipeCapacity
    /\ cgi' = [cgi EXCEPT !.stdout_pipe = @ + 1, !.out_left = @ - 1]
    /\ PipeUnchanged

\* the script is done, or the parent is gone or has killed it (lines 590-594)
ChildExits ==
    /\ cgi.child = "running"
    /\ \/ cgi.pc \in {"killed", "done"}
       \/ /\ cgi.script # "sleeps"
          /\ cgi.out_left = 0
          /\ cgi.script = "ignores_input" \/ cgi.eof
    /\ cgi' = [cgi EXCEPT !.child = "exited"]
    /\ PipeUnchanged

\* lines 581-585: select reports the pipe readable and read returns n > 0
PipeRead ==
    /\ cgi.pc = "select"
    /\ cgi.stdout_pipe > 0
    /\ cgi' = [cgi EXCEPT !.cgi_output = @ + cgi.stdout_pipe, !.stdout_pipe = 0]
    /\ PipeUnchanged

\* lines 579-587: read returns 0 at the end of the child's output, or select
\* returns 0 after tv_sec seconds without any
PipeReadEnds ==
    /\ cgi.pc = "select"
    /\ cgi.stdout_pipe = 0
    /\ cgi' = [cgi EXCEPT !.pc = "done"]
    /\ PipeUnchanged

PipeNext ==
    \/ CgiWriteBody
    \/ CgiWriteSigpipe
    \/ CgiCloseStdin
    \/ ChildReads
    \/ ChildSeesEof
    \/ ChildWrites
    \/ ChildExits
    \/ PipeRead
    \/ PipeReadEnds

\* every step of the parent and of the child is taken if it stays possible
PipeSpec ==
    /\ PipeInit
    /\ [][PipeNext]_vars
    /\ WF_vars(CgiWriteBody)
    /\ WF_vars(CgiWriteSigpipe)
    /\ WF_vars(CgiCloseStdin)
    /\ WF_vars(ChildReads)
    /\ WF_vars(ChildSeesEof)
    /\ WF_vars(ChildWrites)
    /\ WF_vars(ChildExits)
    /\ WF_vars(PipeRead)
    /\ WF_vars(PipeReadEnds)

-----------------------------------------------------------------------------
(* The routing of _buildResponse over routing tables other than the one    *)
(* Config::parse builds: tables a configuration file can describe.         *)

AllMethods == {"GET", "POST", "DELETE", "PUT", "HEAD"}

\* routing tables: the one of Config::parse; a root and a CGI directory, in
\* both orders; a lone directory that allows no method; a root that allows
\* every method; two locations with the same path; a root with a CGI map
\* that does not allow POST
Configs ==
    {DefaultConfig,
     [locations |-> <<[path |-> Chars("/"), methods |-> {"GET"}, cgi_extensions |-> {}],
                      [path |-> Chars("/cgi"), methods |-> AllMethods,
                       cgi_extensions |-> {Py}]>>],
     [locations |-> <<[path |-> Chars("/cgi"), methods |-> AllMethods,
                       cgi_extensions |-> {Py}],
                      [path |-> Chars("/"), methods |-> {"GET"}, cgi_extensions |-> {}]>>],
     [locations |-> <<[path |-> Chars("/cgi"), methods |-> {}, cgi_extensions |-> {Py}]>>],
     [locations |-> <<[path |-> Chars("/"), methods |-> AllMethods,
                       cgi_extensions |-> {}]>>],
     [locations |-> <<[path |-> Chars("/"), methods |-> {"GET", "PUT"},
                       cgi_extensions |-> {}],
                      [path |-> Chars("/"), methods |-> {"POST"}, cgi_extensions |-> {Py}]>>],
     CgiConfig}

\* URIs of completed requests (parseQueryString has cut the query off)
Uris ==
    {Chars("/"), Chars("/a"), Chars("/a.py"), Chars("/cgi/a.py"), Chars("/cgi/a"),
     Chars("/cg"), Chars("/cgi/a.py/b"), Chars("x"), Chars("x.py")}

\* completed requests as parse leaves them
Requests ==
    {[HttpRequest EXCEPT !.method = m, !.uri = u, !.http_version = S_HTTP11,
                         !.state = "COMPLETE"] : m \in AllMethods, u \in Uris}

RouterInit ==
    /\ DriverIdle
    /\ \E config \in Configs : ServerStart(config)

\* _handleRequest, line 255: _buildResponse called for a completed request
BuildResponse(request) ==
    /\ \E resp \in _buildResponse(request) :
           ev' = [kind |-> "route", fd |-> 0, request |-> request,
                  handler |-> Route(request).handler, response |-> resp]
    /\ UNCHANGED <<parserVars, poll_fds, clients, output_buffers, peer, enqueued,
                   sockets, written, now, loop, _config, fs, cgi>>

RouterNext == \E request \in Requests : BuildResponse(request)

RouterSpec == RouterInit /\ [][RouterNext]_vars

-----------------------------------------------------------------------------
(* StaticFileHandler.  fs maps each path that exists to "file", "dir" or   *)
(* "locked" (a file that can neither be opened nor removed).  A call       *)
(* returns the response, the file-system calls it made and the file system *)
(* it leaves.                                                              *)

\* isPathSafe that only rejects a leading parent-directory segment
isPathSafe_LeadingOnly(path) == Find(path, Chars("/.."), 1) # 1

isPathSafe(path) == Find(path, <<".", ".">>, 1) = 0

combinePaths(base, relative) ==
    LET result == IF base # <<>> /\ base[Len(base)] \notin {"/", "\\"}
                  THEN Append(base, "/") ELSE base
        rel    == IF relative # <<>> /\ relative[1] \in {"/", "\\"}
                  THEN Tail(relative) ELSE relative
    IN  result \o [i \in 1..Len(rel) |-> IF rel[i] \in {"/", "\\"} THEN "/" ELSE rel[i]]

getMimeType(path) ==
    LET dot_pos == FindLastOf(path, ".")
        ext     == toLower(SubSeq(path, dot_pos, Len(path)))
    IN  IF dot_pos = 0 THEN "application/octet-stream"
        ELSE IF ext \in {Chars(".html"), Chars(".htm")} THEN "text/html"
        ELSE IF ext = Chars(".css") THEN "text/css"
        ELSE IF ext = Chars(".js") THEN "application/javascript"
        ELSE IF ext = Chars(".json") THEN "application/json"
        ELSE IF ext = Chars(".xml") THEN "application/xml"
        ELSE IF ext \in {Chars(".jpg"), Chars(".jpeg")} THEN "image/jpeg"
        ELSE IF ext = Chars(".png") THEN "image/png"
        ELSE IF ext = Chars(".gif") THEN "image/gif"
        ELSE IF ext = Chars(".svg") THEN "image/svg+xml"
        ELSE IF ext = Chars(".ico") THEN "image/x-icon"
        ELSE IF ext = Chars(".txt") THEN "text/plain"
        ELSE IF ext = Chars(".pdf") THEN "application/pdf"
        ELSE IF ext = Chars(".zip") THEN "application/zip"
        ELSE IF ext = Chars(".mp3") THEN "audio/mpeg"
        ELSE IF ext = Chars(".mp4") THEN "video/mp4"
        ELSE IF ext = Chars(".woff") THEN "font/woff"
        ELSE IF ext = Chars(".woff2") THEN "font/woff2"
        ELSE IF ext = Chars(".ttf") THEN "font/ttf"
        ELSE "application/octet-stream"

\* what readdir returns for a directory: ".", ".." and the names right
\* under it
DirEntries(files, dir_path) ==
    {Chars("."), Chars("..")}
    \cup {SubSeq(q, Len(combinePaths(dir_path, <<>>)) + 1, Len(q)) :
            q \in {p \in DOMAIN files :
                      /\ Len(p) > Len(combinePaths(dir_path, <<>>))
                      /\ SubSeq(p, 1, Len(combinePaths(dir_path, <<>>)))
                             = combinePaths(dir_path, <<>>)
                      /\ \A i \in (Len(combinePaths(dir_path, <<>>)) + 1)..Len(p) :
                             p[i] # "/"}}

\* generateDirectoryListing, lines 134-141: the table row of one entry
ListingRow(name, is_dir) ==
    "<tr><td><a href=\"" \o Str(name) \o (IF is_dir THEN "/" ELSE "") \o "\">" \o Str(name)
    \o (IF is_dir THEN "/" ELSE "") \o "</a></td><td>"
    \o (IF is_dir THEN "Directory" ELSE "File") \o "</td></tr>"

\* generateDirectoryListing, lines 128-145: the loop over readdir, in the
\* order readdir happens to return the entries
RECURSIVE ListingRows(_, _, _)
ListingRows(files, dir_path, names) ==
    IF names = {} THEN ""
    ELSE (IF (CHOOSE n \in names : TRUE) \in {Chars("."), Chars("..")} THEN ""
          ELSE ListingRow(CHOOSE n \in names : TRUE,
                          files[combinePaths(dir_path, CHOOSE n \in names : TRUE)] = "dir"))
         \o ListingRows(files, dir_path, names \ {CHOOSE n \in names : TRUE})

\* StaticFileHandler::generateDirectoryListing for a directory that exists
generateDirectoryListing(files, dir_path, uri) ==
    "<html><head><title>Index of " \o Str(uri) \o "</title>"
    \o "<style>"
    \o "body { font-family: Arial, sans-serif; margin: 20px; }"
    \o "h1 { color: #333; }"
    \o "table { border-collapse: collapse; width: 100%; max-width: 800px; }"
    \o "th, td { text-align: left; padding: 8px; border-bottom: 1px solid #ddd; }"
    \o "th { background-color: #4CAF50; color: white; }"
    \o "a { color: #0066cc; text-decoration: none; }"
    \o "a:hover { text-decoration: underline; }"
    \o "</style></head><body>"
    \o "<h1>Index of " \o Str(uri) \o "</h1>"
    \o "<table><tr><th>Name</th><th>Type</th></tr>"
    \o (IF uri # Chars("/")
        THEN "<tr><td><a href=\"..\">..</a></td><td>Directory</td></tr>" ELSE "")
    \o ListingRows(files, dir_path, DirEntries(files, dir_path))
    \o "</table></body></html>"

\* remove(path): unlink of a file that is not locked, rmdir of an empty directory
CanRemove(files, path) ==
    \/ files[path] = "file"
    \/ /\ files[path] = "dir"
       /\ \A q \in DOMAIN files :
              q = path \/ Len(q) <= Len(path) \/ SubSeq(q, 1, Len(path)) # path

\* a handler that lets index files be deleted
IsIndexFile_Never(filename, default_file) == FALSE

\* handleRequest, lines 176-179: the file name is that of an index file
IsIndexFile(filename, default_file) ==
    filename \in {default_file, Chars("index.html"), Chars("index.htm")}

\* StaticFileHandler::handleRequest
handleRequest(request, files, root_directory, directory_listing_enabled, default_file) ==
    LET uri        == request.uri
        file_path  == combinePaths(root_directory, uri)
        index_path == combinePaths(file_path, default_file)
        exists(q)  == q \in DOMAIN files
        isdir(q)   == exists(q) /\ files[q] = "dir"
        last_slash == FindLastOf(file_path, "/")
        filename   == SubSeq(file_path, last_slash + 1, Len(file_path))
        done(resp, ops) == [response |-> resp, ops |-> ops, fs |-> files]
        stat1      == <<<<"stat", file_path>>>>
    IN  IF ~isPathSafe(uri)
        THEN done(badRequest("Invalid path"), <<>>)
        ELSE IF request.method = "DELETE"
        THEN IF ~exists(file_path)
             THEN done(notFound("The requested resource was not found"), stat1)
             ELSE IF uri = Chars("/") \/ uri = <<>>
             THEN done(methodNotAllowed("Cannot delete index file"), stat1)
             ELSE IF IsIndexFile(filename, default_file)
             THEN done(methodNotAllowed("Cannot delete index files"), stat1)
             ELSE IF CanRemove(files, file_path)
             THEN [response |-> ok("<html><body><h1>200 OK</h1><p>File deleted successfully</p></body></html>",
                                   "text/html"),
                   ops |-> stat1 \o <<<<"remove", file_path>>>>,
                   fs |-> MapRemove(files, file_path)]
             ELSE done(methodNotAllowed("Permission denied: Cannot delete file"),
                       stat1 \o <<<<"remove", file_path>>>>)
        ELSE IF request.method \notin {"GET", "HEAD"}
        THEN done(methodNotAllowed("Only GET and HEAD are allowed for static files"), <<>>)
        ELSE IF ~exists(file_path)
        THEN done(notFound("The requested resource was not found"), stat1)
        ELSE IF isdir(file_path)
        THEN IF exists(index_path) /\ ~isdir(index_path) /\ files[index_path] = "file"
             THEN done(ok("<content>", getMimeType(index_path)),
                       stat1 \o <<<<"stat", file_path>>, <<"stat", index_path>>,
                                  <<"stat", index_path>>, <<"open", index_path>>>>)
             ELSE LET tried == stat1 \o <<<<"stat", file_path>>, <<"stat", index_path>>>>
                                 \o (IF exists(index_path)
                                     THEN <<<<"stat", index_path>>>> ELSE <<>>)
                                 \o (IF exists(index_path) /\ ~isdir(index_path)
                                     THEN <<<<"open", index_path>>>> ELSE <<>>)
                  IN  IF directory_listing_enabled
                      THEN done(ok(generateDirectoryListing(files, file_path, uri), "text/html"),
                                tried \o <<<<"opendir", file_path>>>>)
                      ELSE done(notFound("Directory listing is disabled"), tried)
        ELSE IF files[file_path] = "locked"
        THEN done(internalServerError("Failed to read file"),
                  stat1 \o <<<<"stat", file_path>>, <<"open", file_path>>>>)
        ELSE done(ok("<content>", getMimeType(file_path)),
                  stat1 \o <<<<"stat", file_path>>, <<"open", file_path>>>>)

\* the root, autoindex and index of the location Config::parse sets up
Www == Chars("./www")
Index == Chars("index.html")

\* what is under ./www: a page, a text file, a directory with and one
\* without index.html, a file that cannot be opened, a directory whose
\* index.html cannot be opened, a directory of a file and a directory; or
\* nothing at all
FileSystems ==
    {EmptyMap,
     [q \in {Chars("./www/")} |-> "dir"],
     [q \in {Chars("./www/"), Chars("./www/index.html"), Chars("./www/a.txt"),
             Chars("./www/d"), Chars("./www/d/index.html"), Chars("./www/e"),
             Chars("./www/k"), Chars("./www/f"), Chars("./www/f/index.html"),
             Chars("./www/g"), Chars("./www/g/b.txt"), Chars("./www/g/s")} |->
        IF q \in {Chars("./www/"), Chars("./www/d"), Chars("./www/e"), Chars("./www/f"),
                  Chars("./www/g"), Chars("./www/g/s")}
        THEN "dir"
        ELSE IF q \in {Chars("./www/k"), Chars("./www/f/index.html")} THEN "locked"
        ELSE "file"]}

StaticUris ==
    {Chars("/"), Chars("/a.txt"), Chars("/d"), Chars("/e"), Chars("/k"),
     Chars("/index.html"), Chars("/nope"), Chars("/../a.txt"), Chars("/d/../a.txt"),
     Chars("/a..txt"), Chars("/.."), Chars("/d/.."), Chars("/f"), Chars("/g")}

StaticInit == DriverIdle /\ \E files \in FileSystems : ServerWith(DefaultConfig, files)

\* _buildResponse, lines 305-316: a StaticFileHandler built and called;
\* _handleRequest, line 256: the response built for _sendToClient
CallHandleRequest(request, autoindex) ==
    /\ \E r \in {handleRequest(request, fs, Www, autoindex, Index)} :
          /\ ev' = [kind |-> "static", fd |-> 0, request |-> request,
                    autoindex |-> autoindex, response |-> r.response,
                    out |-> build(r.response), ops |-> r.ops, before |-> fs]
          /\ fs' = r.fs
    /\ UNCHANGED <<parserVars, poll_fds, clients, output_buffers, peer, enqueued,
                   sockets, written, now, loop, _config, cgi>>

StaticSpec ==
    StaticInit /\ [][\E m \in {"GET", "HEAD", "DELETE", "POST"}, u \in StaticUris,
                        autoindex \in BOOLEAN :
                         CallHandleRequest([HttpRequest EXCEPT !.method = m, !.uri = u,
                                                !.http_version = S_HTTP11,
                                                !.state = "COMPLETE"], autoindex)]_vars

-----------------------------------------------------------------------------
(* _executeCgi as one call: the script looked up, pipe and fork, and the   *)
(* response made of everything the child wrote before the read loop ended. *)

\* the components of a path, separated by '/'
RECURSIVE Components(_, _)
Components(path, cur) ==
    IF path = <<>> THEN <<cur>>
    ELSE IF Head(path) = "/" THEN <<cur>> \o Components(Tail(path), <<>>)
    ELSE Components(Tail(path), Append(cur, Head(path)))

\* repeated slashes count as one, and ".." leaves the directory named before
\* it (the directories a path goes through are taken to exist)
RECURSIVE Resolved(_, _)
Resolved(comps, acc) ==
    IF comps = <<>> THEN acc
    ELSE IF Head(comps) = <<>> /\ acc # <<>> /\ Tail(comps) # <<>>
    THEN Resolved(Tail(comps), acc)
    ELSE IF Head(comps) = Chars("..") /\ acc # <<>>
            /\ acc[Len(acc)] \notin {Chars(".."), Chars("."), <<>>}
    THEN Resolved(Tail(comps), SubSeq(acc, 1, Len(acc) - 1))
    ELSE Resolved(Tail(comps), Append(acc, Head(comps)))

RECURSIVE Joined(_)
Joined(comps) ==
    IF comps = <<>> THEN <<>>
    ELSE IF Len(comps) = 1 THEN comps[1]
    ELSE comps[1] \o <<"/">> \o Joined(Tail(comps))

\* a path as the kernel resolves it
NormPath(path) == Joined(Resolved(Components(path, <<>>), <<>>))

\* _executeCgi, lines 481-510: the environment strings that depend on the
\* request; CONTENT_LENGTH and CONTENT_TYPE are pushed for POST only (<<>>
\* stands for a variable that is not set)
CgiEnv(request, script_path) ==
    [REQUEST_METHOD  |-> request.method,
     SCRIPT_FILENAME |-> script_path,
     SCRIPT_NAME     |-> request.uri,
     PATH_INFO       |-> request.uri,
     QUERY_STRING    |-> IF Find(request.uri, <<"?">>, 1) # 0
                         THEN SubSeq(request.uri, Find(request.uri, <<"?">>, 1) + 1,
                                     Len(request.uri))
                         ELSE <<>>,
     CONTENT_LENGTH  |-> IF request.method = "POST"
                         THEN Chars(ToString(Len(request.body))) ELSE <<>>,
     CONTENT_TYPE    |-> IF request.method # "POST" THEN <<>>
                         ELSE IF getHeader(request, S_ContentType) = <<>>
                         THEN Chars("application/x-www-form-urlencoded")
                         ELSE getHeader(request, S_ContentType)]

\* Server::_executeCgi: sys tells whether pipe and fork succeed, cgi_output is
\* what the read loop collects if the child is started
_executeCgi(script_path, files, sys, cgi_output) ==
    IF NormPath(script_path) \notin DOMAIN files \/ files[NormPath(script_path)] = "dir"
    THEN [response |-> notFound("CGI script not found: " \o Str(script_path)),
          forked |-> FALSE]
    ELSE IF sys = "pipe_failed"
    THEN [response |-> internalServerError("CGI pipe failed"), forked |-> FALSE]
    ELSE IF sys = "fork_failed"
    THEN [response |-> internalServerError("CGI fork failed"), forked |-> FALSE]
    ELSE [response |-> CgiCompleted(cgi_output), forked |-> TRUE]

\* the script is a file, is a directory, or is not there; a script next to
\* the root directory
CgiFiles ==
    {[q \in {Chars("./www/a.py")} |-> "file"],
     [q \in {Chars("./www/a.py")} |-> "dir"],
     [q \in {Chars("./www/a.py"), Chars("./x.py")} |-> "file"],
     EmptyMap}

\* what a CGI child may write to its stdout
CgiOutputs ==
    {<<>>,
     Chars("Content-Type: text/plain\r\n\r\nhi"),
     Chars("Status: 404\r\n\r\nnope"),
     Chars("Status: 500\r\n\r\nCGI exec failed"),
     Chars("content-type: a/b\n\nx"),
     Chars("hello"),
     Chars("X: y\n\nb\r\n\r\nc"),
     Chars("Content-Type:text/css\r\nStatus: 201 Created\r\n\r\n"),
     Chars("CONTENT-TYPE: \t a/b\r\n\r\nz"),
     Chars("\r\n\r\nbody"),
     Chars("nocolon\r\n\r\nb"),
     Chars("Content-Type: a\r\nX: y\r\n\r\nq"),
     Chars("Status: 200\nContent-Type: t/u\n\nv\n\nw")}

GatewayInit == DriverIdle /\ \E files \in CgiFiles : ServerWith(CgiConfig, files)

\* _buildResponse, lines 293-297: _executeCgi called for a request of a CGI URI
CallExecuteCgi(request, sys, cgi_output) ==
    /\ Route(request).handler = "_executeCgi"
    /\ \E script_path \in {Www \o <<"/">> \o request.uri} :
       \E r \in {_executeCgi(script_path, fs, sys, cgi_output)} :
           ev' = [kind |-> "cgi_call", fd |-> 0, request |-> request,
                  script_path |-> script_path, sys |-> sys, cgi_output |-> cgi_output,
                  forked |-> r.forked, response |-> r.response,
                  env |-> CgiEnv(request, script_path),
                  stdin |-> IF r.forked THEN request.body ELSE <<>>]
    /\ UNCHANGED <<parserVars, poll_fds, clients, output_buffers, peer, enqueued,
                   sockets, written, now, loop, _config, cgi, fs>>

GatewaySpec ==
    GatewayInit /\ [][\E m \in {"GET", "HEAD"}, sys \in {"ok", "pipe_failed", "fork_failed"},
                         cgi_output \in CgiOutputs,
                         uri \in {Chars("/a.py"), Chars("/../x.py")} :
                          CallExecuteCgi([HttpRequest EXCEPT !.method = m,
                                              !.uri = uri,
                                              !.http_version = S_HTTP11,
                                              !.state = "COMPLETE"], sys, cgi_output)]_vars

\* a server whose root location allows every method and maps .py to an
\* interpreter
CgiAllConfig ==
    [locations |-> <<[path |-> Chars("/"), methods |-> AllMethods,
                      cgi_extensions |-> {Py}]>>]

\* requests for the script, with and without a query and a body
CgiInputs ==
    {Line("GET /a.py HTTP/1.1") \o CRLF,
     Line("GET /a.py?x=1 HTTP/1.1") \o CRLF,
     Line("HEAD /a.py?x=1&y=2?z HTTP/1.0") \o CRLF,
     Line("GET /a.py? HTTP/1.1") \o CRLF,
     Line("POST /a.py?q HTTP/1.1") \o Line("Content-Length: 3") \o CRLF \o Chars("abc"),
     Line("POST /a.py HTTP/1.1") \o Line("Content-Type: t/u") \o CRLF,
     Line("DELETE /a.py?d HTTP/1.1") \o CRLF}

\* the server has read the whole of one request for a script that exists
EnvInit ==
    /\ req = HttpRequest
    /\ ret = FALSE
    /\ todo \in CgiInputs
    /\ fed = <<>>
    /\ edges = {}
    /\ op = "new"
    /\ ServerWith(CgiAllConfig, [q \in {Chars("./www/a.py")} |-> "file"])

\* the request is parsed in one piece and handed to _buildResponse, which
\* calls _executeCgi
EnvSpec ==
    EnvInit /\ [][\/ op = "new" /\ CallParse(Len(todo))
                  \/ \E sys \in {"ok", "pipe_failed", "fork_failed"},
                        cgi_output \in CgiOutputs :
                         ret /\ CallExecuteCgi(req, sys, cgi_output)]_vars

-----------------------------------------------------------------------------
(* UploadHandler: file names, the multipart decoder and handleUpload.      *)

\* a byte above 127: std::isalnum accepts none of them in the C locale
HighByte == "<E9>"

\* sanitizeFilename without the step that drops the path
sanitizeFilename_KeepsSlashes(filename) ==
    LET result == [i \in 1..Len(filename) |->
                      IF \/ IsDigit(filename[i])
                         \/ \E k \in 1..26 : filename[i] \in {UpperCase[k], LowerCase[k]}
                         \/ filename[i] \in {".", "_", "-", "/"}
                      THEN filename[i]
                      ELSE "_"]
    IN  IF result = <<>> \/ result = Chars(".") \/ result = Chars("..")
        THEN Chars("uploaded_file")
        ELSE result

\* UploadHandler::sanitizeFilename
sanitizeFilename(filename) ==
    LET slashes   == {i \in 1..Len(filename) : filename[i] \in {"/", "\\"}}
        safe_name == IF slashes = {} THEN filename
                     ELSE SubSeq(filename, MaxOf(slashes) + 1, Len(filename))
        result    == [i \in 1..Len(safe_name) |->
                         IF \/ IsDigit(safe_name[i])
                            \/ \E k \in 1..26 : safe_name[i] \in {UpperCase[k], LowerCase[k]}
                            \/ safe_name[i] \in {".", "_", "-"}
                         THEN safe_name[i]
                         ELSE "_"]
    IN  IF result = <<>> \/ result = Chars(".") \/ result = Chars("..")
        THEN Chars("uploaded_file")
        ELSE result

\* UploadHandler::UploadHandler: the upload directory is made if the path
\* names nothing
UploadHandler(files, upload_directory) ==
    IF upload_directory \in DOMAIN files THEN files
    ELSE MapPut(files, upload_directory, "dir")

\* saveFile that does not test whether the file was opened
saveFile_Unchecked(files, upload_directory, filename) ==
    LET full_path == IF upload_directory # <<>>
                        /\ upload_directory[Len(upload_directory)] # "/"
                     THEN upload_directory \o <<"/">> \o filename
                     ELSE upload_directory \o filename
        is_open   == /\ upload_directory \in DOMAIN files
                     /\ files[upload_directory] = "dir"
                     /\ full_path \in DOMAIN files => files[full_path] = "file"
    IN  [ok |-> TRUE,
         fs |-> IF is_open THEN MapPut(files, full_path, "file") ELSE files]

\* UploadHandler::saveFile: the file is opened for writing under the upload
\* directory, which creates or truncates it
saveFile(files, upload_directory, filename) ==
    LET full_path == IF upload_directory # <<>>
                        /\ upload_directory[Len(upload_directory)] # "/"
                     THEN upload_directory \o <<"/">> \o filename
                     ELSE upload_directory \o filename
        is_open   == /\ upload_directory \in DOMAIN files
                     /\ files[upload_directory] = "dir"
                     /\ full_path \in DOMAIN files => files[full_path] = "file"
    IN  [ok |-> is_open,
         fs |-> IF is_open THEN MapPut(files, full_path, "file") ELSE files]

\* parseMultipartFormData, lines 140-147: the file name between the quotes
\* of filename="..." in the Content-Disposition line, <<>> if there is none
FilenameOf(cd_line, filename_pos) ==
    IF filename_pos = 0 \/ Find(cd_line, <<"\"">>, filename_pos + 10) = 0 THEN <<>>
    ELSE SubSeq(cd_line, filename_pos + 10, Find(cd_line, <<"\"">>, filename_pos + 10) - 1)

\* the line of headers_section that starts at pos, without its CRLF
HeaderLineAt(headers_section, pos, line_end) ==
    SubSeq(headers_section, pos,
           IF line_end = 0 THEN Len(headers_section) ELSE line_end - 1)

PartFilename(headers_section, cd_pos) ==
    IF cd_pos = 0 THEN <<>>
    ELSE FilenameOf(HeaderLineAt(headers_section, cd_pos,
                                 Find(headers_section, CRLF, cd_pos)),
                    Find(HeaderLineAt(headers_section, cd_pos,
                                      Find(headers_section, CRLF, cd_pos)),
                         Chars("filename=\""), 1))

\* parseMultipartFormData, lines 151-163: the trimmed value of the
\* Content-Type line of the part, application/octet-stream without one
TrimmedType(ct_line) ==
    IF \A i \in 1..Len(ct_line) : ct_line[i] \in TrimSet
    THEN Chars("application/octet-stream")
    ELSE SubSeq(ct_line, MinOf({i \in 1..Len(ct_line) : ct_line[i] \notin {" ", "\t"}}),
                MaxOf({i \in 1..Len(ct_line) : ct_line[i] \notin TrimSet}))

PartContentType(headers_section, ct_pos) ==
    IF ct_pos = 0 THEN Chars("application/octet-stream")
    ELSE TrimmedType(HeaderLineAt(headers_section, ct_pos + 13,
                                  Find(headers_section, CRLF, ct_pos)))

\* the while loop of parseMultipartFormData, lines 89-170, in the stages it
\* goes through for one part; positions are 1-based
RECURSIVE MultipartLoop(_, _, _, _)

\* lines 115-169: the part's data runs up to two bytes before the next
\* delimiter; the part is kept if it has a file name
PartContent(body, delimiter, headers_section, pos, next_boundary, files) ==
    IF next_boundary = 0 \/ next_boundary - 2 <= pos THEN files
    ELSE MultipartLoop(body, delimiter, next_boundary,
                       IF PartFilename(headers_section,
                                       Find(headers_section,
                                            Chars("Content-Disposition:"), 1)) = <<>>
                       THEN files
                       ELSE Append(files,
                                   [filename     |-> PartFilename(headers_section,
                                                        Find(headers_section,
                                                             Chars("Content-Disposition:"), 1)),
                                    content      |-> SubSeq(body, pos, next_boundary - 3),
                                    size         |-> next_boundary - 2 - pos,
                                    content_type |-> PartContentType(headers_section,
                                                        Find(headers_section,
                                                             Chars("Content-Type:"), 1))]))

\* lines 107-112: the headers of the part end at the first empty line
PartHeaders(body, delimiter, pos, headers_end, files) ==
    IF headers_end = 0 THEN files
    ELSE PartContent(body, delimiter, SubSeq(body, pos, headers_end - 1), headers_end + 4,
                     Find(body, delimiter, headers_end + 4), files)

\* lines 96-104: past the delimiter; "--" ends the body, a CRLF is skipped
PartStart(body, delimiter, pos, files) ==
    IF pos + 1 <= Len(body) /\ SubSeq(body, pos, pos + 1) = Chars("--") THEN files
    ELSE IF pos + 1 <= Len(body) /\ SubSeq(body, pos, pos + 1) = CRLF
    THEN PartHeaders(body, delimiter, pos + 2, Find(body, CRLF \o CRLF, pos + 2), files)
    ELSE PartHeaders(body, delimiter, pos, Find(body, CRLF \o CRLF, pos), files)

\* lines 89-93: the next delimiter from pos on
MultipartLoop(body, delimiter, pos, files) ==
    IF pos > Len(body) \/ Find(body, delimiter, pos) = 0 THEN files
    ELSE PartStart(body, delimiter, Find(body, delimiter, pos) + Len(delimiter), files)

\* UploadHandler::parseMultipartFormData: the files it appends; it returns
\* whether there is one
parseMultipartFormData(body, boundary) ==
    MultipartLoop(body, Chars("--") \o boundary, 1, <<>>)

\* lines 200-208 of handleUpload: every decoded file saved under its
\* sanitized name
RECURSIVE SaveAll(_, _, _, _)
SaveAll(files, i, upload_directory, acc) ==
    IF i > Len(files) THEN acc
    ELSE LET safe_filename == sanitizeFilename(files[i].filename)
             s             == saveFile(acc.fs, upload_directory, safe_filename)
         IN  SaveAll(files, i + 1, upload_directory,
                     [passed      |-> Append(acc.passed, safe_filename),
                      saved_files |-> IF s.ok THEN Append(acc.saved_files, safe_filename)
                                      ELSE acc.saved_files,
                      fs          |-> s.fs])

RECURSIVE ListItems(_)
ListItems(saved_files) ==
    IF saved_files = <<>> THEN ""
    ELSE "<li>" \o Str(Head(saved_files)) \o "</li>" \o ListItems(Tail(saved_files))

\* handleUpload, lines 210-223: 500 if no file was saved, else the page that
\* lists the saved names
UploadReport(decoded, saved) ==
    [decoded |-> decoded, passed |-> saved.passed, saved_files |-> saved.saved_files,
     fs |-> saved.fs,
     response |->
        IF saved.saved_files = <<>>
        THEN internalServerError("Failed to save uploaded files")
        ELSE ok("<html><body><h1>Upload Successful</h1><p>Uploaded "
                \o ToString(Len(saved.saved_files)) \o " file(s):</p><ul>"
                \o ListItems(saved.saved_files) \o "</ul></body></html>",
                "text/html")]

\* what handleUpload returns when it saves nothing
UploadRefused(response, files) ==
    [response |-> response, decoded |-> <<>>, passed |-> <<>>, saved_files |-> <<>>,
     fs |-> files]

\* handleUpload, lines 196-208: 400 if no file was decoded, else every file
\* saved
UploadDecoded(decoded, files, upload_directory) ==
    IF decoded = <<>>
    THEN UploadRefused(badRequest("Failed to parse multipart/form-data"), files)
    ELSE UploadReport(decoded,
                      SaveAll(decoded, 1, upload_directory,
                              [passed |-> <<>>, saved_files |-> <<>>, fs |-> files]))

\* UploadHandler::handleUpload: the response, the files decoded, the names
\* handed to saveFile, the names saved, and the file system it leaves
handleUpload(request, files, upload_directory, max_upload_size) ==
    IF request.method # "POST"
    THEN UploadRefused(methodNotAllowed("Only POST is allowed for uploads"), files)
    ELSE IF request.content_length > max_upload_size
    THEN UploadRefused(payloadTooLarge("Upload size exceeds maximum allowed size of "
                                       \o ToString(max_upload_size) \o " bytes"), files)
    ELSE IF request.boundary = <<>>
    THEN UploadRefused(badRequest("Missing boundary in multipart/form-data"), files)
    ELSE UploadDecoded(parseMultipartFormData(request.body, request.boundary), files,
                       upload_directory)

Uploads == Chars("./uploads")

\* one multipart part that carries a file, one that carries a form field,
\* and the terminal boundary, for the boundary B
FilePart(filename, data) ==
    Chars("--B\r\nContent-Disposition: form-data; name=\"f\"; filename=\"") \o filename
    \o Chars("\"\r\nContent-Type: text/plain\r\n\r\n") \o data \o CRLF

FieldPart == Chars("--B\r\nContent-Disposition: form-data; name=\"t\"\r\n\r\nv\r\n")

TerminalBoundary == Chars("--B--\r\n")

\* request bodies: one file; an empty file; no terminal boundary; a terminal
\* boundary cut short; two files, one with a name that needs sanitizing; no
\* file; a field and a file; data that starts like a boundary; a name that
\* is a directory under ./uploads; an empty file and a file; nothing
UploadBodies ==
    {FilePart(Chars("a.txt"), Chars("hi")) \o TerminalBoundary,
     FilePart(Chars("a.txt"), <<>>) \o TerminalBoundary,
     FilePart(Chars("a.txt"), Chars("hi")),
     FilePart(Chars("a.txt"), Chars("hi")) \o Chars("--B"),
     FilePart(Chars("a.txt"), Chars("hi")) \o FilePart(Chars("../b c"), Chars("x\r\ny"))
        \o TerminalBoundary,
     FieldPart \o TerminalBoundary,
     FieldPart \o FilePart(Chars("a.txt"), Chars("z")) \o TerminalBoundary,
     FilePart(Chars("a.txt"), Chars("--")) \o TerminalBoundary,
     FilePart(Chars("d"), Chars("q")) \o TerminalBoundary,
     FilePart(Chars("a.txt"), <<>>) \o FilePart(Chars("d"), Chars("q")) \o TerminalBoundary,
     <<>>}

\* the bytes of an upload request, as a client sends them
UploadBytes(method, content_type, body) ==
    Line(method \o " /up HTTP/1.1") \o Line("Content-Type: " \o content_type)
    \o Line("Content-Length: " \o ToString(Len(body))) \o CRLF \o body

\* the upload directory: there, there with a directory d in it, not
\* writable, or not there
UploadFiles ==
    {[q \in {Uploads} |-> "dir"],
     [q \in {Uploads, Uploads \o Chars("/d")} |-> "dir"],
     [q \in {Uploads} |-> "locked"],
     EmptyMap}

\* the characters of the file names sanitizeFilename is applied to
NameChars == {"a", "Z", "7", ".", "/", "\\", " ", HighByte}

MaxNameLen == 3

Filenames == UNION {[1..n -> NameChars] : n \in 0..MaxNameLen}

\* the request HttpRequest::parse completes from UploadBytes(method,
\* content_type, body): the fields as parseRequestLine, parseHeader and the
\* body state leave them
ParsedUpload(method, content_type, body) ==
    [HttpRequest EXCEPT
        !.method = method, !.uri = Chars("/up"), !.http_version = S_HTTP11,
        !.headers = [k \in {Chars("content-type"), Chars("content-length")} |->
                        IF k = Chars("content-type") THEN Chars(content_type)
                        ELSE Chars(ToString(Len(body)))],
        !.body = body, !.state = "COMPLETE",
        !.raw_data = UploadBytes(method, content_type, body),
        !.bytes_parsed = Len(UploadBytes(method, content_type, body)),
        !.content_length = Len(body),
        !.boundary = IF Find(Chars(content_type), S_boundary, 1) = 0 THEN <<>>
                     ELSE SubSeq(Chars(content_type),
                                 Find(Chars(content_type), S_boundary, 1) + Len(S_boundary),
                                 Len(content_type))]

UploadRequests ==
    {ParsedUpload(method, content_type, body) :
        method \in {"POST", "GET"},
        content_type \in {"multipart/form-data; boundary=B", "text/plain"},
        body \in UploadBodies}

UploadInit == DriverIdle /\ \E files \in UploadFiles : ServerWith(DefaultConfig, files)

\* _buildResponse, lines 319-323: an UploadHandler built and called for a
\* request the parser has completed
CallHandleUpload(request, max_upload_size) ==
    /\ \E before \in {UploadHandler(fs, Uploads)} :
       \E r \in {handleUpload(request, before, Uploads, max_upload_size)} :
          /\ ev' = [kind |-> "upload", fd |-> 0, request |-> request,
                    max_upload_size |-> max_upload_size, before |-> before,
                    response |-> r.response, decoded |-> r.decoded,
                    passed |-> r.passed, saved_files |-> r.saved_files]
          /\ fs' = r.fs
    /\ UNCHANGED <<parserVars, poll_fds, clients, output_buffers, peer, enqueued,
                   sockets, written, now, loop, _config, cgi>>

UploadSpec ==
    UploadInit /\ [][\E request \in UploadRequests, max_upload_size \in {64, 1048576} :
                        CallHandleUpload(request, max_upload_size)]_vars

\* a file name in todo, and the upload directory
NamesInit ==
    /\ req = HttpRequest
    /\ ret = FALSE
    /\ todo \in Filenames
    /\ fed = <<>>
    /\ edges = {}
    /\ op = "new"
    /\ ServerWith(DefaultConfig, [q \in {Uploads} |-> "dir"])

\* sanitizeFilename applied to the name
CallSanitizeFilename ==
    /\ ev' = [kind |-> "sanitize", fd |-> 0, filename |-> todo,
              result |-> sanitizeFilename(todo)]
    /\ UNCHANGED <<parserVars, poll_fds, clients, output_buffers, peer, enqueued,
                   sockets, written, now, loop, _config, cgi, fs>>

\* a file of that name uploaded
UploadNamed ==
    CallHandleUpload(ParsedUpload("POST", "multipart/form-data; boundary=B",
                                  FilePart(todo, Chars("hi")) \o TerminalBoundary),
                     1048576)

NamesSpec == NamesInit /\ [][CallSanitizeFilename \/ UploadNamed]_vars

-----------------------------------------------------------------------------
(* _handleRequest with the handlers themselves: what the server builds and *)
(* appends to the output buffer for a request, and for a parser error.     *)

\* Server::_buildResponse, each handler called on the file system: the
\* response and the file system the handler leaves
Respond(request, files, sys, cgi_output, autoindex) ==
    CASE Route(request).handler = "_executeCgi" ->
            [fs |-> files] @@ _executeCgi(Www \o <<"/">> \o request.uri, files, sys, cgi_output)
      [] Route(request).handler = "StaticFileHandler" ->
            handleRequest(request, files, Www, autoindex, Index)
      [] Route(request).handler = "UploadHandler" ->
            handleUpload(request, UploadHandler(files, Uploads), Uploads, 1048576)
      [] OTHER ->
            [response |-> CHOOSE resp \in Route(request).responses : TRUE, fs |-> files]

ReplyInit ==
    /\ DriverIdle
    /\ \E config \in {DefaultConfig, CgiConfig}, files \in FileSystems \cup CgiFiles :
          ServerWith(config, files)

\* Server::_handleRequest: the response of _buildResponse built and handed
\* to _sendToClient
HandleRequest(request, sys, cgi_output, autoindex) ==
    /\ \E r \in {Respond(request, fs, sys, cgi_output, autoindex)} :
          /\ ev' = [kind |-> "reply", fd |-> 0, method |-> request.method,
                    handler |-> Route(request).handler,
                    response |-> r.response, out |-> build(r.response)]
          /\ fs' = r.fs
    /\ UNCHANGED <<parserVars, poll_fds, clients, output_buffers, peer, enqueued,
                   sockets, written, now, loop, _config, cgi>>

\* Server::_handleClientData, lines 218-228: the response to a parser error
ParseErrorReply(err) ==
    /\ ev' = [kind |-> "reply", fd |-> 0, method |-> "UNKNOWN", handler |-> "parser",
              response |-> ErrorResponse(err), out |-> build(ErrorResponse(err))]
    /\ UNCHANGED <<parserVars, poll_fds, clients, output_buffers, peer, enqueued,
                   sockets, written, now, loop, _config, cgi, fs>>

ReplySpec ==
    /\ ReplyInit
    /\ [][
           \/ \E method \in {"GET", "HEAD", "DELETE", "PUT", "UNKNOWN"}, uri \in StaticUris,
                 autoindex \in BOOLEAN :
                 HandleRequest([HttpRequest EXCEPT !.method = method, !.uri = uri,
                                    !.http_version = S_HTTP11, !.state = "COMPLETE"],
                               "ok", <<>>, autoindex)
           \/ \E method \in {"GET", "HEAD"}, sys \in {"ok", "pipe_failed", "fork_failed"},
                 cgi_output \in CgiOutputs :
                 HandleRequest([HttpRequest EXCEPT !.method = method, !.uri = Chars("/a.py"),
                                    !.http_version = S_HTTP11, !.state = "COMPLETE"],
                               sys, cgi_output, FALSE)
           \/ \E request \in {r \in UploadRequests :
                                 r.body \in {<<>>, FieldPart \o TerminalBoundary,
                                             FilePart(Chars("a.txt"), Chars("hi"))
                                                 \o TerminalBoundary}} :
                 HandleRequest(request, "ok", <<>>, FALSE)
           \/ \E err \in {400, 405, 505} : ParseErrorReply(err)
       ]_vars

-----------------------------------------------------------------------------
(* HttpResponse as an object: constructed, then changed by its setters and *)
(* built after every call.                                                 *)

ResponseInit == DriverIdle /\ ServerStart(DefaultConfig)

\* HttpResponse::HttpResponse(int code), then build()
NewResponse(code) ==
    /\ ev' = [kind |-> "response", fd |-> 0, response |-> HttpResponse(code),
              out |-> build(HttpResponse(code))]
    /\ UNCHANGED <<parserVars, poll_fds, clients, output_buffers, peer, enqueued,
                   sockets, written, now, loop, _config, cgi, fs>>

\* a setter called on the response, then build()
Changed(resp) ==
    /\ ev.kind = "response"
    /\ ev' = [ev EXCEPT !.response = resp, !.out = build(resp)]
    /\ UNCHANGED <<parserVars, poll_fds, clients, output_buffers, peer, enqueued,
                   sockets, written, now, loop, _config, cgi, fs>>

CallSetStatusCode(code) ==
    Changed([ev.response EXCEPT !.status_code = code,
                                !.status_message = getStatusMessage(code)])

CallSetHeader(key, value) == Changed(setHeader(ev.response, key, value))

CallSetBody(content) == Changed(setBody(ev.response, content))

ResponseNext ==
    \/ \E code \in {200, 404, 299} : NewResponse(code)
    \/ \E code \in {204, 500} : CallSetStatusCode(code)
    \/ \E key \in {"Content-Type", "X-Tag"},
          value \in {"", "v", "text/html; charset=utf-8", "a\r\nSet-Cookie: b"} :
          CallSetHeader(key, value)
    \/ \E content \in {"", "hi", "a\r\n\r\nb"} : CallSetBody(content)

ResponseSpec == ResponseInit /\ [][ResponseNext]_vars

-----------------------------------------------------------------------------
\* the server loop of the copy under src/webserver
NextWebserver ==
    \/ \E d \in Ticks : Poll(d)
    \/ SkipEntry
    \/ ServerError
    \/ PollError
    \/ \E stream \in Streams : AcceptEvent(stream, OneClient)
    \/ \E out \in BOOLEAN : ReadEvent("webserver", out)
    \/ WriteEvent

WebserverSpec == Init /\ [][NextWebserver]_vars

\* the server loop with several connections open at a time
NextPair ==
    \/ \E d \in Ticks : Poll(d)
    \/ SkipEntry
    \/ ServerError
    \/ PollError
    \/ \E stream \in FewStreams : AcceptEvent(stream, MaxClients)
    \/ \E out \in BOOLEAN : ReadEvent("webserv", out)
    \/ WriteEvent

PairSpec == Init /\ [][NextPair]_vars

-----------------------------------------------------------------------------
(* Properties of the request parser, checked under ParserSpec *)

Terminal == {"COMPLETE", "ERROR"}

\* what a caller can read from a request
Fields(r) ==
    [state |-> r.state, error_code |-> r.error_code, method |-> r.method,
     uri |-> r.uri, query_string |-> r.query_string,
     http_version |-> r.http_version, headers |-> r.headers, body |-> r.body,
     content_length |-> r.content_length, boundary |-> r.boundary]

\* the bytes buffered and not consumed yet
Unconsumed(r) == SubSeq(r.raw_data, r.bytes_parsed + 1, Len(r.raw_data))

\* the lines of a byte string up to and including its first empty line
RECURSIVE HeaderLines(_)
HeaderLines(s) ==
    LET e == Find(s, CRLF, 1)
    IN  IF e = 0 THEN <<>>
        ELSE IF e = 1 THEN << <<>> >>
        ELSE <<SubSeq(s, 1, e - 1)>> \o HeaderLines(SubSeq(s, e + 2, Len(s)))

\* R is one well-formed request: parsed in one call it completes and uses
\* every byte, and none of its lines is longer than the header limit
WellFormed(R) ==
    LET one == parse(HttpRequest, R).req
    IN  /\ one.state = "COMPLETE"
        /\ one.bytes_parsed = Len(R)
        /\ \A i \in DOMAIN HeaderLines(R) : ByteLen(HeaderLines(R)[i]) + 2 <= HeaderLimit

\* C1: a well-formed request fed in chunks ends in the same state, error code
\* and fields as the same bytes fed in one parse call.
C1_ChunkIndependence ==
    (op = "parse" /\ todo = <<>> /\ WellFormed(fed))
        => Fields(req) = Fields(parse(HttpRequest, fed).req)

\* C3: once the state is COMPLETE or ERROR a parse call changes nothing in the
\* request and returns (state = COMPLETE); only reset() changes the request.
C3_TerminalImmutable ==
    [][req.state \in Terminal =>
          \/ op' = "reset" /\ req' = HttpRequest
          \/ op' = "parse" /\ req' = req /\ ret' = (req.state = "COMPLETE")]_vars

\* parse was called with more bytes after the request had become terminal
C3_Witness ==
    /\ op = "parse"
    /\ req.state = "COMPLETE"
    /\ ret = TRUE
    /\ Len(fed) > Len(req.raw_data)

AllowedEdges ==
    {<<"REQUEST_LINE", "HEADERS">>, <<"HEADERS", "BODY">>, <<"HEADERS", "COMPLETE">>,
     <<"BODY", "COMPLETE">>, <<"REQUEST_LINE", "ERROR">>, <<"HEADERS", "ERROR">>,
     <<"BODY", "ERROR">>}

\* C4: between two resets the state only moves along
\* REQUEST_LINE -> HEADERS -> (BODY ->) COMPLETE, or into ERROR from one of the
\* first three; nothing leaves COMPLETE or ERROR and nothing moves backwards.
\* the pairs <<s, t>> with t reachable from s along allowed edges
Forward ==
    {<<x, x>> : x \in {"REQUEST_LINE", "HEADERS", "BODY", "COMPLETE", "ERROR"}}
    \cup AllowedEdges
    \cup {<<"REQUEST_LINE", "BODY">>, <<"REQUEST_LINE", "COMPLETE">>}

C4_StateGraph ==
    /\ [](edges \subseteq AllowedEdges)
    /\ [][op' = "parse" => <<req.state, req'.state>> \in Forward]_vars
    /\ [][req.state \in Terminal /\ op' = "parse" => req'.state = req.state]_vars

C4_Witness ==
    edges = {<<"REQUEST_LINE", "HEADERS">>, <<"HEADERS", "BODY">>, <<"BODY", "COMPLETE">>}

MethodTokens == {S_GET, S_POST, S_DELETE, S_PUT, S_HEAD}
Versions == {S_HTTP10, S_HTTP11}

\* the error the claim assigns to a request line (0: none)
LineVerdict(line) ==
    LET w == Words(line)
    IN  IF w = <<>> \/ w[1] \notin MethodTokens THEN 405
        ELSE IF Len(w) < 3 THEN 400
        ELSE IF w[3] \notin Versions THEN 505
        ELSE 0

FirstLine(raw) == SubSeq(raw, 1, Find(raw, CRLF, 1) - 1)

\* C5: when the first line is parsed, an unknown method gives 405, else a
\* missing URI or version 400, else an unsupported version 505, each with state
\* ERROR; the state becomes HEADERS exactly when none of the three applies.
C5_RequestLine ==
    (op = "parse" /\ Find(req.raw_data, CRLF, 1) # 0) =>
        LET v == LineVerdict(FirstLine(req.raw_data))
        IN  /\ v # 0 => /\ req.state = "ERROR"
                        /\ req.error_code = v
                        /\ edges = {<<"REQUEST_LINE", "ERROR">>}
            /\ v = 0 <=> <<"REQUEST_LINE", "HEADERS">> \in edges

\* an empty first line was rejected with 405
C5_Witness ==
    /\ op = "parse"
    /\ Find(req.raw_data, CRLF, 1) = 1
    /\ req.state = "ERROR"
    /\ req.error_code = 405

\* more than HeaderLimit bytes are buffered unconsumed with no CRLF among them
OverLimit(r) ==
    /\ ByteLen(Unconsumed(r)) > HeaderLimit
    /\ Find(Unconsumed(r), CRLF, 1) = 0

HeaderEnd(raw) ==
    LET e == Find(raw, CRLF \o CRLF, 1)
    IN  IF e = 0 THEN 0 ELSE e + 3

\* C7: with Content-Length N > 0 and no chunked encoding the state stays BODY,
\* with parse returning false and nothing consumed, while fewer than N bytes
\* follow the header terminator; it is COMPLETE as soon as N bytes are
\* buffered, and the body is then exactly the first N bytes after the
\* terminator.
C7_BodyFraming ==
    (op = "parse" /\ req.content_length > 0 /\ ~isChunked(req)) =>
        LET he    == HeaderEnd(req.raw_data)
            after == SubSeq(req.raw_data, he + 1, Len(req.raw_data))
            N     == req.content_length
        IN  /\ he > 0
            /\ req.state \in {"BODY", "COMPLETE"}
            /\ req.state = "BODY" =>
                   /\ ByteLen(after) < N
                   /\ ret = FALSE
                   /\ req.bytes_parsed = he
                   /\ req.body = <<>>
            /\ req.state = "COMPLETE" =>
                   /\ ByteLen(after) >= N
                   /\ ret = TRUE
                   /\ req.body = SubSeq(after, 1, N)
                   /\ req.bytes_parsed = he + N

\* a 3-byte body was cut out of a buffer that holds more bytes after it
C7_Witness ==
    /\ op = "parse"
    /\ req.state = "COMPLETE"
    /\ req.content_length = 3
    /\ req.body = Chars("abc")
    /\ Len(req.raw_data) > req.bytes_parsed

\* the Transfer-Encoding value stored for the request contains "chunked" in any case
DeclaresChunked(r) ==
    /\ toLower(S_TransferEncoding) \in DOMAIN r.headers
    /\ Find(toLower(r.headers[toLower(S_TransferEncoding)]), S_chunked, 1) # 0

HeadersEnded == \E e \in edges : e[1] = "HEADERS" /\ e[2] \in {"BODY", "COMPLETE"}

\* C8: a request whose Transfer-Encoding contains "chunked" in any case, with
\* or without Content-Length, is in ERROR with 501 when the parse call that
\* consumed the blank line returns; it is never COMPLETE and no body byte is
\* consumed.
C8_ChunkedRejected ==
    (op = "parse" /\ DeclaresChunked(req)) =>
        /\ req.state # "COMPLETE"
        /\ req.state # "BODY"
        /\ HeadersEnded =>
              /\ req.state = "ERROR"
              /\ req.error_code = 501
              /\ ret = FALSE
              /\ req.body = <<>>
              /\ req.bytes_parsed = HeaderEnd(req.raw_data)

\* a chunked request that also declares a Content-Length was rejected
C8_Witness ==
    /\ op = "parse"
    /\ DeclaresChunked(req)
    /\ req.content_length > 0
    /\ req.error_code = 501
    /\ Len(req.raw_data) > req.bytes_parsed

\* the request target: the second word of the request line
Target(raw) == Words(FirstLine(raw))[2]

\* C9: a request that reaches COMPLETE has a known method, version HTTP/1.0 or
\* HTTP/1.1, a non-empty URI without '?' and as query string everything after
\* the first '?' of the request target.
C9_CompleteIsValid ==
    (op = "parse" /\ req.state = "COMPLETE") =>
        LET t == Target(req.raw_data)
            q == Find(t, <<"?">>, 1)
        IN  /\ req.method \in {"GET", "POST", "DELETE", "PUT", "HEAD"}
            /\ req.http_version \in Versions
            /\ req.uri # <<>>
            /\ Find(req.uri, <<"?">>, 1) = 0
            /\ req.query_string = IF q = 0 THEN <<>> ELSE SubSeq(t, q + 1, Len(t))


\* C2: when a connection has delivered a stream of k complete well-formed
\* requests, however the reads split it, k responses have been appended to its
\* output buffer, one per request and in the order of the requests.
C2_OneResponsePerRequest ==
    \A fd \in DOMAIN clients :
        (peer[fd].segs = <<>> /\ peer[fd].requests # <<>>)
            => [i \in 1..Len(enqueued[fd]) |-> enqueued[fd][i].uri] = peer[fd].requests

ErrorCodes == {400, 403, 404, 405, 413, 431, 500, 501, 505}

\* out is one built response with an error status
IsErrorReply(out) ==
    /\ out # <<>>
    /\ \E code \in ErrorCodes :
           out[1] = "HTTP/1.1 " \o ToString(code) \o " " \o getStatusMessage(code) \o "\r\n"
    /\ Cardinality({i \in DOMAIN out : out[i] = "\r\n"}) = 1

\* C10: a read that drives the parser of a connection into ERROR appends
\* exactly one error response to the output buffer of the connection and
\* registers write interest in that same step, the connection stays
\* registered, and no connection holds a request in ERROR with nothing queued.
C10_ErrorAnswered ==
    /\ [][\A fd \in ClientFds :
              (ev'.kind = "read" /\ ev'.fd = fd /\ ev'.state = "ERROR")
                  => /\ fd \in DOMAIN clients'
                     /\ "POLLIN" \in Events(poll_fds', fd)
                     /\ "POLLOUT" \in Events(poll_fds', fd)
                     /\ \E n \in 1..Len(Buffered(output_buffers', fd)) :
                            LET new == Buffered(output_buffers', fd)
                                old == Buffered(output_buffers, fd)
                            IN  /\ Len(new) = Len(old) + n
                                /\ SubSeq(new, 1, Len(old)) = old
                                /\ IsErrorReply(SubSeq(new, Len(old) + 1, Len(new)))]_vars
    /\ [](\A fd \in DOMAIN clients :
              clients[fd].request.state = "ERROR"
                  => Buffered(output_buffers, fd) # <<>>)

\* the codes with which a read has driven a parser into ERROR
C10_Reached(code) == ev.kind = "read" /\ ev.state = "ERROR" /\ ev.error_code = code

-----------------------------------------------------------------------------
(* Properties of the server loop *)

\* a read of fd has just driven its parser into ERROR with this code
ParseFailed(fd, code) ==
    ev'.kind = "read" /\ ev'.fd = fd /\ ev'.state = "ERROR" /\ ev'.error_code = code

ParserErrorCodes == {400, 405, 431, 501, 505}

\* C11: the response enqueued for a parse error carries the error code of the
\* parser as its status, for each of 400, 405, 431, 501 and 505.
C11_StatusFidelity ==
    [][\A fd \in ClientFds : \A code \in ParserErrorCodes :
           ParseFailed(fd, code)
               => /\ fd \in DOMAIN enqueued'
                  /\ enqueued'[fd] # <<>>
                  /\ enqueued'[fd][Len(enqueued'[fd])].status = code]_vars

\* the descriptors in the poll set, in its order
PollFdSeq == [i \in DOMAIN poll_fds |-> poll_fds[i].fd]

Occurrences(fd) == Cardinality({i \in DOMAIN poll_fds : poll_fds[i].fd = fd})

\* C12: the listening descriptor is in the poll set exactly once, the other
\* descriptors of the poll set are the keys of the client table, none of them
\* twice, and every key of the output-buffer table is a key of the client table.
C12_TablesConsistent ==
    /\ Occurrences(_server_fd) = 1
    /\ {PollFdSeq[i] : i \in DOMAIN poll_fds} \ {_server_fd} = DOMAIN clients
    /\ \A fd \in DOMAIN clients : Occurrences(fd) = 1
    /\ DOMAIN output_buffers \subseteq DOMAIN clients

\* the lower descriptor was closed and is given out again by accept while the
\* connection on the higher one has output pending
C12_Witness ==
    /\ ev.kind = "accept"
    /\ ev.fd = _server_fd + 1
    /\ Buffered(output_buffers, _server_fd + 2) # <<>>
    /\ DOMAIN clients = {_server_fd + 1, _server_fd + 2}

\* the step has called _removeClient(fd)
Evicts(fd) ==
    \/ ev'.kind \in {"hangup", "read_failed", "write_failed"} /\ ev'.fd = fd
    \/ ev'.kind = "poll" /\ fd \in ev'.evicted

\* C13: after _removeClient(fd) the descriptor is closed and is in none of
\* the poll set, the client table and the output-buffer table; calling
\* _removeClient(fd) again, before the number is given out anew, changes
\* nothing.
C13_EvictionComplete ==
    /\ [][\A fd \in ClientFds :
              Evicts(fd)
                  => /\ fd \notin sockets'
                     /\ \A i \in DOMAIN poll_fds' : poll_fds'[i].fd # fd
                     /\ fd \notin DOMAIN clients'
                     /\ fd \notin DOMAIN output_buffers']_vars
    /\ [](\A fd \in ClientFds \ sockets : removeClient(Tables, fd) = Tables)

\* a connection with pending output has just been evicted while another one
\* is open
C13_Witness ==
    /\ ev.kind \in {"hangup", "read_failed", "write_failed"}
    /\ ev.fd \in loop.evicted
    /\ ev.fd \notin sockets
    /\ \E fd \in sockets : Buffered(output_buffers, fd) # <<>>

\* C14: a sweep removes every connection whose last activity is more than 60
\* seconds back, whatever its readiness and its parser state, and removes no
\* connection idle for 60 seconds or less.
C14_IdleEviction ==
    [][ev'.kind = "poll"
           => \A fd \in DOMAIN clients :
                  IF now' - clients[fd].last_activity > 60
                  THEN fd \notin DOMAIN clients' /\ fd \notin sockets'
                  ELSE /\ fd \in DOMAIN clients'
                       /\ clients'[fd] = clients[fd]
                       /\ Buffered(output_buffers', fd) = Buffered(output_buffers, fd)]_vars

\* a sweep has just removed a connection
C14_Witness == ev.kind = "poll" /\ ev.evicted # {} /\ now - 60 > 0

\* all responses enqueued for fd, one after the other
EnqueuedBytes(fd) == Concat([i \in DOMAIN enqueued[fd] |-> enqueued[fd][i].out])

\* C15: what has been written to a socket followed by what is in its output
\* buffer is the concatenation of the responses enqueued for it, in order; a
\* writable event makes one write, which takes a prefix off the buffer, and
\* write interest ends with the write that empties the buffer.
C15_OutputIntegrity ==
    /\ [](\A fd \in DOMAIN clients :
              written[fd] \o Buffered(output_buffers, fd) = EnqueuedBytes(fd))
    /\ [][\A fd \in DOMAIN clients :
              (ev'.kind = "write" /\ ev'.fd = fd)
                  => /\ ev'.sent \in 1..Len(output_buffers[fd])
                     /\ written'[fd] = written[fd] \o SubSeq(output_buffers[fd], 1, ev'.sent)
                     /\ output_buffers'[fd] =
                            SubSeq(output_buffers[fd], ev'.sent + 1, Len(output_buffers[fd]))
                     /\ enqueued'[fd] = enqueued[fd]
                     /\ "POLLOUT" \in Events(poll_fds', fd) <=> output_buffers'[fd] # <<>>
                     /\ "POLLIN" \in Events(poll_fds', fd)]_vars

\* a partial write has left the end of one response and all of the next one
\* in the buffer
C15_Witness ==
    /\ ev.kind = "write"
    /\ ev.fd \in DOMAIN clients
    /\ Len(enqueued[ev.fd]) = 2
    /\ written[ev.fd] # <<>>
    /\ Len(output_buffers[ev.fd]) > Len(enqueued[ev.fd][2].out)

\* fd is in none of the structures of the server and its socket is closed
Gone(fd, T) ==
    /\ fd \notin T.sockets
    /\ fd \notin DOMAIN T.clients
    /\ fd \notin DOMAIN T.output_buffers
    /\ \A i \in DOMAIN T.poll_fds : T.poll_fds[i].fd # fd

\* what the server holds for the connection on fd
Connection(fd, T) ==
    [client  |-> IF fd \in DOMAIN T.clients THEN <<T.clients[fd]>> ELSE <<>>,
     output  |-> IF fd \in DOMAIN T.output_buffers THEN <<T.output_buffers[fd]>> ELSE <<>>,
     polled  |-> SelectSeq(T.poll_fds, LAMBDA e : e.fd = fd),
     open    |-> fd \in T.sockets,
     queued  |-> IF fd \in DOMAIN T.enqueued THEN <<T.enqueued[fd]>> ELSE <<>>]

\* C16: a read that returns 0 or fails, and a write that returns 0 or fails,
\* evict the connection: it leaves every structure, its pending output is
\* discarded, no response is enqueued anywhere, and the rest of the iteration
\* does nothing for that descriptor.
C16_IoFailureEvicts ==
    /\ [][\A fd \in ClientFds :
              (ev'.kind \in {"read_failed", "write_failed"} /\ ev'.fd = fd)
                  => /\ Gone(fd, Tables')
                     /\ fd \in loop'.evicted \/ loop'.pc = "poll"
                     /\ \A other \in ClientFds \ {fd} :
                            Connection(other, Tables') = Connection(other, Tables)]_vars
    /\ [][\A fd \in loop.evicted : loop.pc # "poll" => ev'.fd # fd /\ Gone(fd, Tables')]_vars

\* a write has just failed with output pending, or a read has just failed
\* with a request half parsed; another entry of the poll set is still to come
C16_Witness ==
    /\ ev.kind \in {"read_failed", "write_failed"}
    /\ ev.fd \in loop.evicted
    /\ loop.pc = "in"

\* what the claim lists for a connection: membership of the tables, the
\* request with its parser state and buffered bytes, the output buffer, the
\* read/write interest and the last-activity time
Observed(fd, T) ==
    [client   |-> IF fd \in DOMAIN T.clients THEN <<T.clients[fd]>> ELSE <<>>,
     output   |-> IF fd \in DOMAIN T.output_buffers THEN <<T.output_buffers[fd]>> ELSE <<>>,
     interest |-> [i \in 1..Len(SelectSeq(T.poll_fds, LAMBDA e : e.fd = fd)) |->
                      SelectSeq(T.poll_fds, LAMBDA e : e.fd = fd)[i].events],
     open     |-> fd \in T.sockets]

\* C17: a step of the for loop handles the entry it stands on (an accept, a
\* read with its parse and routing, a write, a hang-up, an eviction) and leaves
\* every other connection as it was; the sweep leaves every connection it
\* does not evict as it was.
C17_ErrorIsolation ==
    [][\A B \in DOMAIN clients :
          /\ (loop.pc # "poll" /\ B # Entry.fd) =>
                 Observed(B, Tables') = Observed(B, Tables)
          /\ (loop.pc = "poll" /\ B \notin ev'.evicted) =>
                 Observed(B, Tables') = Observed(B, Tables)]_vars

\* connection A has just been answered a parse error, or has just been lost
\* on a failed read or write, while connection B holds unsent output
C17_Witness ==
    /\ \/ ev.kind \in {"read_failed", "write_failed"}
       \/ ev.kind = "read" /\ ev.state = "ERROR"
    /\ \E B \in DOMAIN clients : B # ev.fd /\ Buffered(output_buffers, B) # <<>>

\* the responses enqueued so far for the connection on fd
Queued(q, fd) == IF fd \in DOMAIN q THEN q[fd] ELSE <<>>

\* C19: whenever the loop is back at poll, no connection's request is COMPLETE
\* or ERROR; and a step that enqueues a response for a connection leaves that
\* connection's request equal to a freshly constructed HttpRequest.
C19_RequestReset ==
    /\ [](loop.pc = "poll" =>
             \A fd \in DOMAIN clients :
                 clients[fd].request.state \in {"REQUEST_LINE", "HEADERS", "BODY"})
    /\ [][\A fd \in DOMAIN clients' :
              Len(Queued(enqueued', fd)) > Len(Queued(enqueued, fd))
                  => clients'[fd].request = HttpRequest]_vars

\* the loop is back at poll right after a read that completed or failed a
\* request on a connection that is still there, with its response enqueued
C19_Witness ==
    /\ loop.pc = "poll"
    /\ ev.kind = "read"
    /\ ev.state \in {"COMPLETE", "ERROR"}
    /\ ev.fd \in DOMAIN clients
    /\ Queued(enqueued, ev.fd) # <<>>

\* the locations of the routing table whose path is a prefix of uri, and
\* those among them with the longest path
PrefixMatches(uri) ==
    {i \in DOMAIN _config.locations :
        LET path == _config.locations[i].path
        IN  Len(path) <= Len(uri) /\ SubSeq(uri, 1, Len(path)) = path}

LongestMatches(uri) ==
    {i \in PrefixMatches(uri) :
        \A j \in PrefixMatches(uri) :
            Len(_config.locations[j].path) <= Len(_config.locations[i].path)}

\* the extension of a URI: from its last '.' to its end
UriExtension(uri) ==
    IF \E i \in 1..Len(uri) : uri[i] = "."
    THEN SubSeq(uri, CHOOSE i \in 1..Len(uri) :
                        uri[i] = "." /\ \A j \in (i + 1)..Len(uri) : uri[j] # ".",
                Len(uri))
    ELSE <<>>

\* the outcome the routing order of the claim gives a request under location L
RoutedAs(request, L, handler, response) ==
    IF request.method \notin L.methods
    THEN handler = "none" /\ response.status_code = 405
    ELSE IF UriExtension(request.uri) \in L.cgi_extensions
    THEN handler = "_executeCgi"
    ELSE IF request.method \in {"GET", "DELETE", "HEAD"}
    THEN handler = "StaticFileHandler"
    ELSE IF request.method = "POST"
    THEN handler = "UploadHandler"
    ELSE /\ request.method = "PUT"
         /\ handler = "none"
         /\ response.status_code = 200

\* C20: a completed request is answered 404 without a handler if no location
\* path is a prefix of its URI; otherwise a location with the longest such
\* path decides: method not allowed gives 405 without a handler, else a URI
\* extension in the CGI map gives the CGI gateway, else GET, DELETE and HEAD
\* give the static resolver, POST the upload gateway, PUT a fixed success.
C20_RoutingDecision ==
    ev.kind = "route" =>
        IF PrefixMatches(ev.request.uri) = {}
        THEN ev.handler = "none" /\ ev.response.status_code = 404
        ELSE \E i \in LongestMatches(ev.request.uri) :
                 RoutedAs(ev.request, _config.locations[i], ev.handler, ev.response)

\* a request has been routed to the CGI gateway by the longer of two
\* locations that both match, the shorter of which does not allow its method
C20_Witness ==
    /\ ev.kind = "route"
    /\ ev.handler = "_executeCgi"
    /\ Cardinality(PrefixMatches(ev.request.uri)) = 2
    /\ \E i \in PrefixMatches(ev.request.uri) :
           ev.request.method \notin _config.locations[i].methods

\* the handler called for a read event waits for the CGI child: select has
\* nothing to report until the child writes or exits, or tv_sec seconds pass
WaitsOnChild == cgi.pc = "select" /\ cgi.pipe = <<>>

\* C18: the loop is suspended only in poll: no time passes between the return
\* of poll and the next call of poll, and the handling of a readiness event
\* never waits for a subprocess or a pipe.
C18_BlocksOnlyAtPoll ==
    /\ [][now' # now => loop.pc = "poll"]_vars
    /\ [](~WaitsOnChild)

\* C21: a GET, HEAD or DELETE whose URI contains ".." is answered 400 by
\* StaticFileHandler::handleRequest without any call on the file system,
\* whether or not the target exists, and the file system is left as it was.
C21_TraversalRejected ==
    (/\ ev.kind = "static"
     /\ ev.request.method \in {"GET", "HEAD", "DELETE"}
     /\ \E i \in 1..(Len(ev.request.uri) - 1) :
            ev.request.uri[i] = "." /\ ev.request.uri[i + 1] = ".")
        => /\ ev.response.status_code = 400
           /\ ev.ops = <<>>
           /\ fs = ev.before

\* a DELETE of /d/../a.txt has been answered while ./www/a.txt exists
C21_Witness ==
    /\ ev.kind = "static"
    /\ ev.request.method = "DELETE"
    /\ ev.request.uri = Chars("/d/../a.txt")
    /\ Chars("./www/a.txt") \in DOMAIN fs

\* a built response up to and including the empty line, and what follows it
HeadOf(out) == SubSeq(out, 1, CHOOSE i \in 1..Len(out) : out[i] = "\r\n")
BodyOf(out) == SubSeq(out, Len(HeadOf(out)) + 1, Len(out))

\* C22: the bytes built for a HEAD request that the static resolver handled
\* have the status line and the headers of a GET of the same URI, and nothing
\* after the empty line.
C22_HeadOmitsBody ==
    (ev.kind = "static" /\ ev.request.method = "HEAD")
        => /\ HeadOf(ev.out) =
                  HeadOf(build(handleRequest([ev.request EXCEPT !.method = "GET"],
                                             ev.before, Www, ev.autoindex, Index).response))
           /\ BodyOf(ev.out) = <<>>

\* the code of the first Status header of a CGI header block, 0 if it has none;
\* the header block of an output, <<>> if the output has no separator
RECURSIVE StatusHeader(_)
StatusHeader(lines) ==
    IF lines = <<>> THEN 0
    ELSE IF Len(Head(lines)) >= 7 /\ toLower(SubSeq(Head(lines), 1, 7)) = Chars("status:")
    THEN ExtractSizeT(SubSeq(Head(lines), 8, Len(Head(lines))))
    ELSE StatusHeader(Tail(lines))

CgiHeaderBlock(output) ==
    IF Find(output, CRLF \o CRLF, 1) # 0
    THEN SubSeq(output, 1, Find(output, CRLF \o CRLF, 1) - 1)
    ELSE IF Find(output, <<"\n", "\n">>, 1) # 0
    THEN SubSeq(output, 1, Find(output, <<"\n", "\n">>, 1) - 1)
    ELSE <<>>

\* C23: the response of the CGI gateway has the status code of the Status
\* header of the CGI output, and 200 only when the output has no Status header.
C23_CgiStatusApplied ==
    (ev.kind = "cgi_call" /\ ev.forked /\ ev.cgi_output # <<>>)
        => LET code == StatusHeader(GetLines(CgiHeaderBlock(ev.cgi_output)))
           IN  ev.response.status_code = IF code = 0 THEN 200 ELSE code

\* the lines of a CGI header block without the CR that ends them, and the
\* value of its Content-Type header (text/html if it has none)
HeaderFields(block) ==
    [i \in 1..Len(GetLines(block)) |->
        LET l == GetLines(block)[i]
        IN  IF l # <<>> /\ l[Len(l)] = "\r" THEN SubSeq(l, 1, Len(l) - 1) ELSE l]

DeclaredType(block) ==
    LET named == {i \in 1..Len(HeaderFields(block)) :
                     /\ Len(HeaderFields(block)[i]) >= 13
                     /\ toLower(SubSeq(HeaderFields(block)[i], 1, 13)) = Chars("content-type:")}
        line  == HeaderFields(block)[MaxOf(named)]
        from  == MinOf({k \in 14..(Len(line) + 1) : k > Len(line) \/ line[k] \notin {" ", "\t"}})
    IN  IF named = {} THEN "text/html" ELSE Str(SubSeq(line, from, Len(line)))

\* C25: a script that is not a regular file gives 404 and no fork; a failed
\* pipe or fork gives 500; no output gives 500; otherwise the body is what
\* follows the first CRLF-CRLF (the first LF-LF if there is none, the whole
\* output if there is neither) and the Content-Type is the one the CGI
\* header block declares, text/html if it declares none.
C25_CgiResultMapping ==
    ev.kind = "cgi_call" =>
        LET path  == NormPath(ev.script_path)
            out   == ev.cgi_output
            block == CgiHeaderBlock(out)
            cut   == IF Find(out, CRLF \o CRLF, 1) # 0 THEN Len(block) + 4
                     ELSE IF Find(out, <<"\n", "\n">>, 1) # 0 THEN Len(block) + 2
                     ELSE 0
        IN  IF path \notin DOMAIN fs \/ fs[path] # "file"
            THEN ev.response.status_code = 404 /\ ~ev.forked
            ELSE IF ev.sys # "ok"
            THEN ev.response.status_code = 500
            ELSE IF out = <<>>
            THEN ev.response.status_code = 500
            ELSE /\ ev.response.body = Str(SubSeq(out, cut + 1, Len(out)))
                 /\ ev.response.headers["Content-Type"] = DeclaredType(block)
                 /\ out = Chars("Content-Type: text/plain\r\n\r\nhi")
                        => /\ ev.response.status_code = 200
                           /\ ev.response.headers["Content-Type"] = "text/plain"
                           /\ ev.response.body = "hi"

\* the gateway has answered a child that wrote an LF-LF before a CRLF-CRLF
C25_Witness ==
    /\ ev.kind = "cgi_call"
    /\ ev.forked
    /\ Find(ev.cgi_output, <<"\n", "\n">>, 1) # 0
    /\ Find(ev.cgi_output, <<"\n", "\n">>, 1) < Find(ev.cgi_output, CRLF \o CRLF, 1)

\* C24: a call of the CGI gateway that waits on its child returns to the
\* loop (within the modelled time span).
C24_CgiReturns ==
    (cgi.pc = "select" /\ now + tv_sec <= MaxTime) ~> (cgi.pc = "none")

\* the outcome handleUpload is to give, from the request, the files decoded
\* and the names saved
UploadOutcome ==
    IF ev.request.method # "POST" THEN 405
    ELSE IF ev.request.content_length > ev.max_upload_size THEN 413
    ELSE IF ev.request.boundary = <<>> THEN 400
    ELSE IF ev.decoded = <<>> THEN 400
    ELSE IF ev.saved_files = <<>> THEN 500
    ELSE 200

\* C26: handleUpload answers 405, 413, 400 (no boundary), 400 (no file
\* decoded), 500 (no file saved), 200 in that order of precedence; a 200
\* lists exactly the sanitized names that were saved, and a 405, 413 or 400
\* leaves the file system as it was.
C26_UploadPrecedence ==
    ev.kind = "upload" =>
        /\ ev.response.status_code = UploadOutcome
        /\ ev.response.status_code = 200 =>
              /\ ev.response.body =
                    "<html><body><h1>Upload Successful</h1><p>Uploaded "
                    \o ToString(Len(ev.saved_files)) \o " file(s):</p><ul>"
                    \o ListItems(ev.saved_files) \o "</ul></body></html>"
              /\ ev.saved_files # <<>>
              /\ \A i \in 1..Len(ev.saved_files) :
                    /\ Uploads \o <<"/">> \o ev.saved_files[i] \in DOMAIN fs
                    /\ \E k \in 1..Len(ev.decoded) :
                          ev.saved_files[i] = sanitizeFilename(ev.decoded[k].filename)
              /\ DOMAIN fs = DOMAIN ev.before
                    \cup {Uploads \o <<"/">> \o ev.saved_files[i] : i \in 1..Len(ev.saved_files)}
        /\ ev.response.status_code \in {405, 413, 400} => fs = ev.before

\* an upload of two files of which one was saved
C26_Witness ==
    /\ ev.kind = "upload"
    /\ ev.response.status_code = 200
    /\ Len(ev.decoded) = 2
    /\ Len(ev.saved_files) = 2

\* the file names and the file contents of the single-part bodies
PartNames == {Chars("a.txt"), Chars("d")}
PartData == {Chars("hi"), Chars("q"), Chars("--"), <<>>}

\* handleUpload has got as far as decoding the body
Decoding ==
    /\ ev.kind = "upload"
    /\ ev.request.method = "POST"
    /\ ev.request.content_length <= ev.max_upload_size
    /\ ev.request.boundary = Chars("B")

\* C27: a body of one file part closed by the terminal boundary decodes to
\* one file with the name and, byte for byte, the data of the part; the
\* same body without the terminal boundary decodes to no file and is
\* answered 400 or 500.
C27_SinglePartDecoded ==
    Decoding =>
        \A filename \in PartNames, data \in PartData :
            /\ ev.request.body = FilePart(filename, data) \o TerminalBoundary
                  => /\ Len(ev.decoded) = 1
                     /\ ev.decoded[1].filename = filename
                     /\ ev.decoded[1].content = data
            /\ ev.request.body = FilePart(filename, data)
                  => /\ ev.decoded = <<>>
                     /\ ev.response.status_code \in {400, 500}

\* a name made of characters of [A-Za-z0-9._-] only, not empty, not "."
\* and not ".."
SafeName(name) ==
    /\ name \notin {<<>>, Chars("."), Chars("..")}
    /\ \A i \in 1..Len(name) :
          name[i] \in {Chars("ABCDEFGHIJKLMNOPQRSTUVWXYZabcdefghijklmnopqrstuvwxyz0123456789._-")[k] :
                          k \in 1..65}

\* what follows the last '/' or '\' of a name
BaseName(name) ==
    IF \E i \in 1..Len(name) : name[i] \in {"/", "\\"}
    THEN SubSeq(name, MaxOf({i \in 1..Len(name) : name[i] \in {"/", "\\"}}) + 1, Len(name))
    ELSE name

\* C28: the output of sanitizeFilename is a safe name, and is uploaded_file
\* when the input would sanitize to nothing, "." or ".."; every name handed
\* to saveFile, and every file an upload creates, has such a name.
C28_SanitizedNames ==
    /\ ev.kind = "sanitize" =>
          /\ SafeName(ev.result)
          /\ BaseName(ev.filename) \in {<<>>, Chars("."), Chars("..")}
                => ev.result = Chars("uploaded_file")
    /\ ev.kind = "upload" =>
          /\ \A i \in 1..Len(ev.passed) : SafeName(ev.passed[i])
          /\ \A path \in DOMAIN fs \ DOMAIN ev.before :
                \E name \in {SubSeq(path, Len(Uploads) + 2, Len(path))} :
                   /\ path = Uploads \o <<"/">> \o name
                   /\ SafeName(name)

\* a name whose last component is ".." was sanitized
C28_Witness ==
    /\ ev.kind = "sanitize"
    /\ ev.filename = Chars("/..")
    /\ ev.result = Chars("uploaded_file")

\* the value of the header called name in the head of a built response,
\* <<>> if there is none
HeaderValues(out, name) ==
    {SubSeq(out[i], Len(name) + 3, Len(out[i]) - 2) :
        i \in {k \in 2..(Len(HeadOf(out)) - 1) :
                  /\ Len(out[k]) >= Len(name) + 4
                  /\ SubSeq(out[k], 1, Len(name) + 2) = name \o ": "}}

Bytes(out) == Concat([i \in 1..Len(out) |-> Chars(out[i])])

\* the header lines of a serialized response from position pos on, each
\* split at its first ": ", up to the empty line; from is where the body
\* starts
RECURSIVE SplitHeaders(_, _, _)
SplitHeaders(bytes, pos, acc) ==
    LET eol   == Find(bytes, CRLF, pos)
        line  == SubSeq(bytes, pos, eol - 1)
        colon == Find(line, Chars(": "), 1)
    IN  IF eol = 0 THEN [headers |-> acc, from |-> Len(bytes) + 1]
        ELSE IF line = <<>> THEN [headers |-> acc, from |-> eol + 2]
        ELSE IF colon = 0 THEN SplitHeaders(bytes, eol + 2, acc)
        ELSE SplitHeaders(bytes, eol + 2,
                          MapPut(acc, Str(SubSeq(line, 1, colon - 1)),
                                 Str(SubSeq(line, colon + 2, Len(line)))))

\* a serialized response split into the status code of its status line,
\* its headers, and as many bytes of body as Content-Length says
SplitResponse(bytes) ==
    LET eol == Find(bytes, CRLF, 1)
        h   == SplitHeaders(bytes, eol + 2, EmptyMap)
        n   == IF "Content-Length" \in DOMAIN h.headers
               THEN DecimalValue(Chars(h.headers["Content-Length"]))
               ELSE 0
    IN  [status_code |-> DecimalValue(Words(SubSeq(bytes, 1, eol - 1))[2]),
         headers     |-> h.headers,
         body        |-> Str(SubSeq(bytes, h.from, h.from + n - 1))]

\* C30: the bytes build() makes of a response, split into status line,
\* header lines and body, give back its status code, its headers and its
\* body.
C30_ResponseRoundTrip ==
    ev.kind = "response" =>
        /\ SplitResponse(Bytes(ev.out)).status_code = ev.response.status_code
        /\ SplitResponse(Bytes(ev.out)).headers = ev.response.headers
        /\ SplitResponse(Bytes(ev.out)).body = ev.response.body

-----------------------------------------------------------------------------
(* Properties of one iteration of Server::run, checked under PairSpec *)

\* the descriptors poll was called with in this iteration whose entries the
\* for loop has not examined yet; an entry appended by accept during the
\* iteration has no requested events
Unexamined ==
    IF loop.pc = "poll" THEN {}
    ELSE {poll_fds[k].fd : k \in {j \in DOMAIN poll_fds :
                                      /\ poll_fds[j].requested # {}
                                      /\ \/ j > loop.i
                                         \/ j = loop.i /\ loop.pc = "in"}}

\* the descriptor of the entry the for loop examines in the next step
Examined == IF loop.pc = "in" THEN {Entry.fd} ELSE {}

Registered(pfds) == {pfds[k].fd : k \in DOMAIN pfds}

\* C31: poll and the idle sweep are one step ahead of the for loop, so no
\* connection idle for more than 60 seconds is registered while events are
\* handled; and each step of the for loop examines one entry and leaves every
\* other polled entry that is still registered to be examined later in the
\* same iteration, none of them twice, whatever the step evicts.
C31_IterationCoverage ==
    /\ [](loop.pc # "poll" => TimedOut(Tables, now) = {})
    /\ [][loop.pc \in {"in", "out"}
              => Unexamined' = (Unexamined \ Examined) \cap Registered(poll_fds')]_vars

-----------------------------------------------------------------------------
(* Further properties of the request parser, checked under ParserSpec *)

\* C32: parse sets error 431 only when more than 8192 bytes are buffered and
\* not consumed as complete lines; a request whose lines are all shorter than
\* the limit is not answered 431, however it is cut into chunks.
C32_CapCountsUnconsumed ==
    op = "parse" =>
        /\ req.error_code = 431 => ByteLen(Unconsumed(req)) > HeaderLimit
        /\ fed \o todo = In_BigHeaders => req.error_code # 431

-----------------------------------------------------------------------------
(* Further properties of the CGI gateway, checked under GatewaySpec *)

HasDotDot(uri) == Find(uri, Chars(".."), 1) # 0

\* the path names something under the root directory
UnderRoot(path) ==
    /\ Len(path) > Len(Www)
    /\ SubSeq(path, 1, Len(Www) + 1) = Www \o <<"/">>

\* C33: a request whose URI contains ".." and that is dispatched to
\* _executeCgi is answered 400 or 404, no child is forked for it, and the
\* script path it looks up is under the root directory.
C33_NoTraversalToCgi ==
    (ev.kind = "cgi_call" /\ HasDotDot(ev.request.uri))
        => /\ ev.response.status_code \in {400, 404}
           /\ ~ev.forked
           /\ UnderRoot(NormPath(ev.script_path))

-----------------------------------------------------------------------------
(* Property of the pipes of the CGI gateway, checked under PipeSpec *)

\* C34: after fork the parent always gets past the write of the request body
\* and closes the input pipe, whatever the script does and whatever the size
\* of the body; the child then reads end-of-input after the last body byte.
C34_BodyDelivered ==
    /\ (cgi.pc = "write") ~> (cgi.pc = "select")
    /\ [](cgi.eof => cgi.left = 0 /\ cgi.stdin_pipe = 0)

\* the part of the request target after its first '?'
QueryOf(target) ==
    IF Find(target, <<"?">>, 1) = 0 THEN <<>>
    ELSE SubSeq(target, Find(target, <<"?">>, 1) + 1, Len(target))

\* C35: for a request handed to _executeCgi, QUERY_STRING is the part of the
\* request target after the first '?', REQUEST_METHOD is the method of the
\* request line, and for POST CONTENT_LENGTH is the number of body bytes
\* written to the child's stdin.
C35_CgiEnvironment ==
    ev.kind = "cgi_call" =>
        /\ ev.env.QUERY_STRING = QueryOf(Target(fed))
        /\ Chars(ev.env.REQUEST_METHOD) = Words(FirstLine(fed))[1]
        /\ (ev.request.method = "POST" /\ ev.forked)
               => ev.env.CONTENT_LENGTH = Chars(ToString(Len(ev.stdin)))

\* bodies given by their parts: a part is a file name (<<>> for a form
\* field) and its data
FieldOnly == [filename |-> <<>>, data |-> Chars("v")]
PartLists ==
    {<<[filename |-> Chars("a.txt"), data |-> Chars("hi")]>>,
     <<[filename |-> Chars("a.txt"), data |-> Chars("hi")],
       [filename |-> Chars("../b c"), data |-> Chars("x\r\ny")]>>,
     <<FieldOnly>>,
     <<FieldOnly, [filename |-> Chars("a.txt"), data |-> Chars("z")]>>,
     <<[filename |-> Chars("a.txt"), data |-> <<>>],
       [filename |-> Chars("d"), data |-> Chars("q")]>>}

RECURSIVE MultipartBody(_)
MultipartBody(parts) ==
    IF parts = <<>> THEN TerminalBoundary
    ELSE (IF Head(parts).filename = <<>> THEN FieldPart
          ELSE FilePart(Head(parts).filename, Head(parts).data))
         \o MultipartBody(Tail(parts))

\* the part carries a file name and some content
IsFilePart(part) == part.filename # <<>> /\ part.data # <<>>

\* C36: a body of several parts closed by the terminal boundary decodes to
\* the parts that carry a file name and content, in the order of the body,
\* each with its name and its bytes; the other parts are passed over and the
\* parts after them are still decoded.
C36_EveryFilePartDecoded ==
    Decoding =>
        \A parts \in PartLists :
            ev.request.body = MultipartBody(parts)
                => /\ Len(ev.decoded) = Len(SelectSeq(parts, IsFilePart))
                   /\ \A i \in DOMAIN ev.decoded :
                         /\ ev.decoded[i].filename = SelectSeq(parts, IsFilePart)[i].filename
                         /\ ev.decoded[i].content = SelectSeq(parts, IsFilePart)[i].data

-----------------------------------------------------------------------------
(* Further properties of the static file handler, checked under StaticSpec *)

\* the path the handler resolves the URI of the call to, and its default file
TargetPath == combinePaths(Www, ev.request.uri)
IndexPath == combinePaths(TargetPath, Index)

\* the names right under the directory the call was for
Children ==
    {SubSeq(q, Len(combinePaths(TargetPath, <<>>)) + 1, Len(q)) :
        q \in {p \in DOMAIN ev.before :
                  /\ Len(p) > Len(combinePaths(TargetPath, <<>>))
                  /\ SubSeq(p, 1, Len(combinePaths(TargetPath, <<>>)))
                         = combinePaths(TargetPath, <<>>)
                  /\ \A i \in (Len(combinePaths(TargetPath, <<>>)) + 1)..Len(p) :
                         p[i] # "/"}}

\* the body of the response has a link to the entry name
Names(name) == Find(Chars(ev.response.body), Chars("<a href=\"") \o name, 1) # 0

\* the response is 200 with the content of the file at path
Serves(path) ==
    /\ ev.response.status_code = 200
    /\ ev.response.body = "<content>"
    /\ ev.ops[Len(ev.ops)] = <<"open", path>>

\* C37: for GET and HEAD a path that does not exist gives 404; a directory
\* gives its default file with 200 if that file exists and is no directory,
\* else with directory listing enabled a 200 listing that names every entry
\* but "." and "..", else 404; a regular file gives 200 with its content, and
\* 500 only if it cannot be opened.
C37_StaticResolution ==
    (/\ ev.kind = "static"
     /\ ev.request.method \in {"GET", "HEAD"}
     /\ isPathSafe(ev.request.uri))
        => IF TargetPath \notin DOMAIN ev.before
           THEN ev.response.status_code = 404
           ELSE IF ev.before[TargetPath] = "dir"
           THEN IF IndexPath \in DOMAIN ev.before /\ ev.before[IndexPath] # "dir"
                THEN Serves(IndexPath)
                ELSE IF ev.autoindex
                THEN /\ ev.response.status_code = 200
                     /\ \A name \in Children : Names(name)
                     /\ ~Names(Chars("./")) /\ ~Names(Chars("../"))
                ELSE ev.response.status_code = 404
           ELSE IF ev.before[TargetPath] = "locked"
           THEN ev.response.status_code = 500
           ELSE Serves(TargetPath)

\* the file name of the path the call was for: what follows its last '/'
TargetName == SubSeq(TargetPath, FindLastOf(TargetPath, "/") + 1, Len(TargetPath))

-----------------------------------------------------------------------------
(* Further properties of the server loop, checked under PairSpec *)

\* C39: between event handlers every registered connection has POLLIN in its
\* events, and has POLLOUT in them exactly if its output buffer exists and is
\* not empty.
C39_WriteInterestTracksOutput ==
    \A k \in DOMAIN poll_fds :
        poll_fds[k].fd # _server_fd
            => /\ "POLLIN" \in poll_fds[k].events
               /\ "POLLOUT" \in poll_fds[k].events
                      <=> /\ poll_fds[k].fd \in DOMAIN output_buffers
                          /\ output_buffers[poll_fds[k].fd] # <<>>

\* of two registered connections one has a response waiting and write
\* interest, the other has had its buffer emptied by a write and has none
C39_Witness ==
    /\ ev.kind = "write"
    /\ ev.fd \in DOMAIN output_buffers /\ output_buffers[ev.fd] = <<>>
    /\ Events(poll_fds, ev.fd) = {"POLLIN"}
    /\ \E fd \in Registered(poll_fds) \ {ev.fd, _server_fd} :
           /\ Buffered(output_buffers, fd) # <<>>
           /\ Events(poll_fds, fd) = {"POLLIN", "POLLOUT"}

\* C40: the last-activity time of a connection is the time of its accept
\* until a read returns bytes for it, a read that returns bytes sets it to
\* the time of the read, and no other step changes it: not the response a
\* read enqueues for another connection, and not a write; a sweep evicts
\* every connection whose last-activity time is more than 60 seconds back,
\* output buffer and unsent bytes included.
C40_IdleTimerReadsOnly ==
    [][\A fd \in ClientFds :
          /\ (fd \notin DOMAIN clients /\ fd \in DOMAIN clients')
                 => ev'.kind = "accept" /\ ev'.fd = fd /\ clients'[fd].last_activity = now
          /\ (fd \in DOMAIN clients /\ fd \in DOMAIN clients')
                 => IF ev'.kind = "read" /\ ev'.fd = fd
                    THEN clients'[fd].last_activity = now
                    ELSE clients'[fd].last_activity = clients[fd].last_activity
          /\ (/\ ev'.kind = "poll" /\ fd \in DOMAIN clients
              /\ now' - clients[fd].last_activity > 60)
                 => Gone(fd, Tables')]_vars

\* a sweep has just evicted a connection part of whose response had been
\* written and the rest of which was still in its output buffer
C40_Witness ==
    /\ ev.kind = "poll"
    /\ \E fd \in ev.evicted :
           /\ Gone(fd, Tables)
           /\ ev.sent[fd] # <<>>
           /\ ev.dropped[fd] # <<>>

=============================================================================
